---- MODULE Spec2Model ----
(***************************************************************************)
(* Model of sdcadm's update procedures:                                    *)
(*   - UpdateManateeV2.execute (lib/procedures/update-manatee-v2.js), the  *)
(*     vasync pipeline that upgrades the manatee peers, and                *)
(*   - coordinatePlan (lib/procedures/index.js), the filter pipeline that  *)
(*     turns a plan's changes into a procedure list.                       *)
(***************************************************************************)
EXTENDS Integers, Sequences, FiniteSets, TLC

(***************************************************************************)
(* Bounds of the model.                                                    *)
(***************************************************************************)
\* largest number of manatee instances bound to the change
MaxInsts == 4
\* number of servers the instances are spread over
NumServers == 3
\* number of polls after which the model stops following a wait loop whose
\* own counter never advances
PollCap == 38

(***************************************************************************)
(* Program constants.                                                      *)
(***************************************************************************)
\* waitForManatee: var limit = 180
ManateeLimit == 180
\* waitForShardPromotion: var limit = 36
PromotionLimit == 36
\* waitForPostgresUp: var limit = 36
PostgresLimit == 36

VARIABLES
    pc,          \* the pipeline function that runs next, or done/failed/crashed
    insts,       \* change.insts (change.inst when there is one): zone -> server
    hostname,    \* os.hostname(), as the server the tool runs on
    HA,          \* arg.HA
    shard,       \* arg.shard: role -> peer record or NoPeer
    manateeUUID, \* the local manatee zone
    scriptIdx,   \* how many updateInstUserScript functions have run
    counter,     \* the `counter` variable of the wait loop that is running
    polls,       \* number of status probes the running wait loop has made
    lastHit,     \* the last probe of waitForManatee showed the awaited mode
    sapiUUID,    \* local sapi zone found by getLocalSapi
    sapiMeta,    \* SAPI_PROTO_MODE metadata of the sapi zone
    sapiMode,    \* mode the sapi service runs in
    err,         \* first error handed to the pipeline callback (nextSvc)
    log          \* remote actions performed so far, in order

mvars == <<pc, insts, hostname, HA, shard, manateeUUID, scriptIdx, counter,
           polls, lastHit, sapiUUID, sapiMeta, sapiMode, err, log>>

\* coordinatePlan (lib/procedures/index.js)
VARIABLES
    plan,          \* opts.plan: changes, curr, justImages
    imgapiMissing, \* image uuids the local imgapi does not hold
    cpc,           \* the function of coordinatePlan's pipeline that runs next
    changes,       \* the `changes` variable: the changes not handled so far
    procs,         \* the `procs` variable
    cerr,          \* error given to cb, or "none"
    summary,       \* the changes an UpdateError lists
    returned,      \* the procedure list given to cb
    cfirst         \* what an earlier run on the same plan gave to cb

cvars == <<plan, imgapiMissing, cpc, changes, procs, cerr, summary, returned,
           cfirst>>

\* execUpdatePlan (sdcadm.js, lines 3030-3144 of the source file)
VARIABLES
    xpc,      \* the function of execUpdatePlan that runs next
    xdry,     \* options.dryRun
    xuuid,    \* options.uuid is given
    xprocs,   \* plan.procs.length
    xi,       \* the procedure forEachPipeline has started last
    xlog,     \* starts and callbacks of the procedures, in order
    xhist,    \* the `hist` variable: the history record, or NoHist
    xerr,     \* the error the pipeline ended with, or "none"
    xupdated, \* number of calls of history.updateHistory
    xcb       \* the arguments cb was called with, in order

xvars == <<xpc, xdry, xuuid, xprocs, xi, xlog, xhist, xerr, xupdated, xcb>>

\* selfUpdate (sdcadm.js, lines 3163-3469 of the source file)
VARIABLES
    spc,       \* the function of selfUpdate that runs next
    sdry,      \* options.dryRun
    sunlock,   \* the `unlock` variable holds the function of the lock
    slocked,   \* the lock file is held by this process
    sacquires, \* number of calls of acquireLock
    sunlocks,  \* number of calls of the unlock function
    smanifest, \* updateManifest is set: there is an update to install
    shist,     \* the `hist` variable: the history record, or NoHist
    serr,      \* the error the pipeline ended with, or "none"
    sfin,      \* finishUpErr, or "none"
    scb        \* the arguments cb was called with, in order

svars == <<spc, sdry, sunlock, slocked, sacquires, sunlocks, smanifest,
           shist, serr, sfin, scb>>

\* genUpdatePlan (sdcadm.js, lines 2437-3002 of the source file)
VARIABLES
    gpc,          \* the function of genUpdatePlan that runs next
    greqs,        \* options.changes
    gforceSame,   \* options.forceSameImage
    gforceRabbit, \* options.forceRabbitmq
    gjust,        \* options.justImages
    gchanges,     \* the `changes` variable
    ginsts,       \* the `insts` variable
    gerr,         \* the error the pipeline ended with, or "none"
    gplan,        \* the `plan` variable: the plan, or NoPlan
    gcb,          \* the arguments cb was called with, in order
    gerrs,        \* the errors the error of validateChanges carries
    gcalls        \* the upstream sources genUpdatePlan has queried

VARIABLES
    ipc,       \* the function of getInstances that runs next
    iagents,   \* the agents the sysinfo of the servers lists, in order
    isapiInst, \* the `sapiAgentInstFromName` variable
    ivms,      \* the core zones vmapi listed: the image uuid of each
    ipending,  \* the zones whose addOneCoreZone waits for imgapi
    iinsts,    \* the `insts` variable
    ierrs,     \* the errors forEachParallel has collected
    ierr,      \* the error the pipeline ended with, or "none"
    icb        \* the arguments cb was called with, in order

VARIABLES
    kpc,       \* the function of getCandidateImages that runs next
    kinuse,    \* the image of each instance of opts.service in opts.insts
    klocal,    \* the image uuids the local imgapi holds
    kupstream, \* the image uuids the updates server holds
    klook,     \* for each of currImgUuids, how far its getImage has come
    kcurr,     \* the `currImgs` variable
    kerrs,     \* the errors forEachParallel has collected
    kimgs,     \* the `imgs` variable, <<>> while undefined
    kerr,      \* the error the pipeline ended with, or "none"
    kcb,       \* the arguments cb was called with, in order
    klog       \* the calls getImage made to imgapi and to the updates server

VARIABLES
    wpc,       \* waitForManatee: the function that runs next, or done
    wstate,    \* the `state` argument
    wobj,      \* the status of the call of getShardStatus that ended the wait
    wmode,     \* the `mode` variable derived from that status
    wcounter,  \* the `counter` variable
    wcb        \* the argument callback was called with, "" before the call

gvars == <<gpc, greqs, gforceSame, gforceRabbit, gjust, gchanges, ginsts,
           gerr, gplan, gcb, gerrs, gcalls>>

\* the state of the functions other than updateManatee and coordinatePlan
ivars == <<ipc, iagents, isapiInst, ivms, ipending, iinsts, ierrs, ierr, icb>>

kvars == <<kpc, kinuse, klocal, kupstream, klook, kcurr, kerrs, kimgs, kerr,
           kcb, klog>>

wvars == <<wpc, wstate, wobj, wmode, wcounter, wcb>>

ovars == <<xvars, svars, gvars, ivars, kvars, wvars>>

vars == <<mvars, cvars, ovars>>

(***************************************************************************)
(* Data                                                                    *)
(***************************************************************************)
Servers == 1..NumServers
Roles == <<"primary", "sync", "async">>
RoleSet == {"primary", "sync", "async"}
NoPeer == [zoneId |-> 0, server_uuid |-> 0]
TargetImage == "IB"

Min(a, b) == IF a < b THEN a ELSE b

\* Server placements of n instances, up to renaming of the servers: the
\* first instance is on server 1, and each later one on a server already in
\* use or on the next unused one.
MaxOf(S) == IF S = {} THEN 0 ELSE CHOOSE y \in S : \A z \in S : z <= y

Placements(n) ==
    {f \in [1..n -> Servers] :
        \A i \in 1..n : f[i] <= 1 + MaxOf({f[j] : j \in 1..(i-1)})}

\* One entry of the log.
Ev(op, zone, server, res) ==
    [op |-> op, zone |-> zone, server |-> server, res |-> res,
     mode |-> "", want |-> "", n |-> 0, img |-> ""]

(***************************************************************************)
(* The shard status as waitForManatee reads it: obj.sdc may be missing;    *)
(* each of primary, sync, async may be missing; of a peer only its repl    *)
(* record is read: missing, empty ({}), or holding a sync_state.           *)
(***************************************************************************)
Repls == {"missing", "empty", "sync", "async", "potential"}
PeerObs == {"none"} \cup Repls
Statuses == [sdc : {FALSE}, primary : {"none"}, sync : {"none"},
             async : {"none"}]
            \cup [sdc : {TRUE}, primary : PeerObs, sync : PeerObs,
                  async : PeerObs]

\* obj.sdc.X.repl && !obj.sdc.X.repl.length &&
\*     Object.keys(obj.sdc.X.repl).length === 0
ReplUp(r) == r = "empty"

\* lines 203-229: the mode _waitForStatus derives from a status
Mode(obj) ==
    IF ~obj.sdc THEN "transition"
    ELSE IF obj.primary = "none" /\ obj.sync = "none" /\ obj.async = "none"
        THEN "empty"
    ELSE IF obj.primary # "none" /\ obj.sync # "none" /\ obj.async # "none"
        THEN IF ReplUp(obj.async) /\ obj.sync = "async"
             THEN "async" ELSE "transition"
    ELSE IF obj.primary # "none" /\ obj.sync # "none"
        THEN IF ReplUp(obj.sync) /\ obj.primary = "sync"
             THEN "sync" ELSE "transition"
    ELSE IF obj.primary # "none"
        THEN IF ReplUp(obj.primary) THEN "primary" ELSE "transition"
    ELSE "transition"

ObservedModes == {Mode(obj) : obj \in Statuses}

\* no status read yet
NoStatus == [sdc |-> FALSE, primary |-> "none", sync |-> "none",
             async |-> "none"]

(***************************************************************************)
(* The pipeline of updateManatee, in the order the functions are listed.   *)
(***************************************************************************)
\* the pipeline with two functions exchanged
Swapped(seq, a, b) ==
    [i \in 1..Len(seq) |->
        IF seq[i] = a THEN b ELSE IF seq[i] = b THEN a ELSE seq[i]]

StepsInOrder ==
    <<"getUserScript", "writeOldUserScriptForRollback",
      "updateSvcUserScript", "updateVmUserScript", "updateSapiSvc",
      "getLocalManatee", "getShard", "getShardServers",
      "installPrimaryImage", "verifyFullHA", "disableAsync",
      "waitForAsyncDisabled", "installImageAsyncServer",
      "reprovisionAsync", "waitForAsync", "waitForHA", "disableSync",
      "waitForSyncDisabled", "installImageSyncServer",
      "reprovisionSync", "waitForSync", "waitForHASync",
      "disablePrimaryManatee", "waitForShardPromotion", "getLocalSapi",
      "setSapiProtoMode", "restartSapiIntoProtoMode",
      "reprovisionPrimary", "waitForPrimaryInstance",
      "waitForPrimaryPG", "resetSapiToFullMode", "waitForShardHA">>

\* disableSync listed before the wait for the async peer's return
Steps_DisableSyncEarly == Swapped(StepsInOrder, "waitForHA", "disableSync")

\* the async server's image installed before the async peer is disabled
Steps_InstallAsyncFirst ==
    Swapped(Swapped(StepsInOrder, "installImageAsyncServer",
                    "waitForAsyncDisabled"),
            "installImageAsyncServer", "disableAsync")

\* sapi put back into full mode before the peer is reprovisioned
Steps_ResetBeforeReprovision ==
    Swapped(StepsInOrder, "resetSapiToFullMode", "reprovisionPrimary")

\* the image installed before the service is pointed at the new image
Steps_InstallBeforeSapiSvc ==
    Swapped(StepsInOrder, "installPrimaryImage", "updateSapiSvc")

\* sapi put back into full mode right after its metadata was written
Steps_ResetAfterProtoMode ==
    Swapped(StepsInOrder, "resetSapiToFullMode", "restartSapiIntoProtoMode")

Steps == StepsInOrder

StepIndex(name) == CHOOSE i \in 1..Len(Steps) : Steps[i] = name

\* vasync.pipeline: the function after `name`, or the end of the pipeline
After(name) ==
    IF StepIndex(name) = Len(Steps) THEN "done"
    ELSE Steps[StepIndex(name) + 1]

\* next(): the pipeline moves on; the loop variables of the next function
\* start afresh
Proceed(name) ==
    /\ pc' = After(name)
    /\ counter' = 0
    /\ polls' = 0
    /\ lastHit' = FALSE

\* next(e): the pipeline stops and its callback receives e. (Where a wait
\* loop ends with an error of its status command, its counters, which no
\* code can read any more, are cleared.)
Fail(e) ==
    /\ pc' = "failed"
    /\ err' = IF err = "none" THEN e ELSE err

\* an exception nobody catches (reading a property of undefined)
Crash ==
    /\ pc' = "crashed"
    /\ err' = IF err = "none" THEN "TypeError" ELSE err

Results == {"ok", "err"}

\* `var plan;`: no plan yet
NoPlan == [defined |-> FALSE, changes |-> <<>>, curr |-> <<>>,
           targ |-> <<>>, justImages |-> FALSE, procs |-> <<>>]

\* no earlier run of coordinatePlan
NoRun == [defined |-> FALSE, err |-> "none", procs |-> <<>>]

\* the servers cnapi lists and the names of the agent services
AgentServers == {"s1", "s2"}
AgentNames == {"provisioner", "heartbeater"}

\* an instance id: a uuid sapi gave (<<"sapi", "", i>>), the uuid of a zone
\* (<<"vm", "", v>>), or server.uuid + '/' + agent.name
NoId == <<"", "", 0>>

\* `var sapiAgentInstFromName = {}`
NoAgentInsts == [name \in AgentNames |-> NoId]

\* `var hist;`: no history record yet
NoHist == [defined |-> FALSE, uuid |-> FALSE, error |-> "none"]

Ok(name) == Proceed(name) /\ UNCHANGED err
Stop(e) == Fail(e) /\ UNCHANGED <<counter, polls, lastHit>>
Throw == Crash /\ UNCHANGED <<counter, polls, lastHit>>

NumInsts == Len(insts)
Zones == 1..NumInsts

\* the entries the log gets for the different remote actions
EvWait(zone, server, res, mode, want) ==
    [op |-> "wait", zone |-> zone, server |-> server, res |-> res,
     mode |-> mode, want |-> want, n |-> 0, img |-> ""]
EvImg(op, zone, server, res) ==
    [op |-> op, zone |-> zone, server |-> server, res |-> res,
     mode |-> "", want |-> "", n |-> 0, img |-> TargetImage]
\* a promotion seen from `zone`: mode tells whether the status named
\* another zone than the original primary
EvPromotion(zone, server, other) ==
    [op |-> "promotion", zone |-> zone, server |-> server, res |-> "ok",
     mode |-> IF other THEN "promoted" ELSE "same", want |-> "", n |-> 0,
     img |-> ""]

(***************************************************************************)
(* State after UpdateManateeV2.execute was entered with one change.        *)
(***************************************************************************)
ManateeInit ==
    /\ pc = "updateManatee"
    /\ \E n \in 1..MaxInsts : insts \in Placements(n)
    /\ hostname \in Servers
    /\ HA = FALSE
    /\ shard = [r \in RoleSet |-> NoPeer]
    /\ manateeUUID = 0
    /\ scriptIdx = 0
    /\ counter = 0
    /\ polls = 0
    /\ lastHit = FALSE
    /\ sapiUUID = ""
    /\ sapiMeta = FALSE
    /\ sapiMode = "full"
    /\ err = "none"
    /\ log = <<>>
    \* coordinatePlan is not running
    /\ plan = [changes |-> <<>>, curr |-> <<>>, justImages |-> FALSE]
    /\ imgapiMissing = {}
    /\ cpc = "idle"
    /\ changes = <<>>
    /\ procs = <<>>
    /\ cerr = "none"
    /\ summary = <<>>
    /\ returned = <<>>
    /\ cfirst = NoRun
    \* execUpdatePlan is not running
    /\ xpc = "idle"
    /\ xdry = FALSE
    /\ xuuid = FALSE
    /\ xprocs = 0
    /\ xi = 0
    /\ xlog = <<>>
    /\ xhist = NoHist
    /\ xerr = "none"
    /\ xupdated = 0
    /\ xcb = <<>>
    \* selfUpdate is not running
    /\ spc = "idle"
    /\ sdry = FALSE
    /\ sunlock = FALSE
    /\ slocked = FALSE
    /\ sacquires = 0
    /\ sunlocks = 0
    /\ smanifest = FALSE
    /\ shist = NoHist
    /\ serr = "none"
    /\ sfin = "none"
    /\ scb = <<>>
    \* genUpdatePlan is not running
    /\ gpc = "idle"
    /\ greqs = <<>>
    /\ gforceSame = FALSE
    /\ gforceRabbit = FALSE
    /\ gjust = FALSE
    /\ gchanges = <<>>
    /\ ginsts = <<>>
    /\ gerr = "none"
    /\ gplan = NoPlan
    /\ gcb = <<>>
    /\ gerrs = <<>>
    /\ gcalls = {}
    \* getInstances is not running
    /\ ipc = "idle"
    /\ iagents = <<>>
    /\ isapiInst = NoAgentInsts
    /\ ivms = <<>>
    /\ ipending = {}
    /\ iinsts = <<>>
    /\ ierrs = {}
    /\ ierr = "none"
    /\ icb = <<>>
    \* getCandidateImages is not running
    /\ kpc = "idle"
    /\ kinuse = <<>>
    /\ klocal = {}
    /\ kupstream = {}
    /\ klook = <<>>
    /\ kcurr = <<>>
    /\ kerrs = {}
    /\ kimgs = <<>>
    /\ kerr = "none"
    /\ kcb = <<>>
    /\ klog = <<>>
    \* waitForManatee is not running on its own
    /\ wpc = "idle"
    /\ wstate = ""
    /\ wobj = NoStatus
    /\ wmode = ""
    /\ wcounter = 0
    /\ wcb = ""

(***************************************************************************)
(* updateManatee, lines 377-474: the steps common to both topologies.      *)
(***************************************************************************)
\* a test that never finds several instances
ArgHA_Never(n) == FALSE

\* lines 389-391: change.insts && change.insts.length > 1, for a change
\* with n instances in change.insts
ArgHA(n) == n > 1

\* lines 377-416: arg.HA is set and the list of functions is built
updateManatee ==
    /\ pc = "updateManatee"
    /\ HA' = ArgHA(NumInsts)
    /\ pc' = Steps[1]
    /\ UNCHANGED <<cvars, ovars, insts, hostname, shard, manateeUUID, scriptIdx,
                   counter, polls, lastHit, sapiUUID, sapiMeta, sapiMode,
                   err, log>>

\* a function of lib/procedures/shared.js that the pipeline lists as is: it
\* calls back with or without an error
SharedStep(name) ==
    /\ pc = name
    /\ \E r \in Results :
        /\ log' = Append(log, Ev(name, 0, 0, r))
        /\ IF r = "ok" THEN Ok(name) ELSE Stop(name)
    /\ UNCHANGED <<cvars, ovars, insts, hostname, HA, shard, manateeUUID, scriptIdx,
                   sapiUUID, sapiMeta, sapiMode>>

getUserScript == SharedStep("getUserScript")

writeOldUserScriptForRollback == SharedStep("writeOldUserScriptForRollback")

updateSvcUserScript == SharedStep("updateSvcUserScript")

\* lines 399-400: no-HA, s.updateVmUserScript
updateVmUserScript ==
    /\ ~HA
    /\ SharedStep("updateVmUserScript")

\* lines 402-412: HA, one updateInstUserScript function per instance
updateInstUserScript ==
    /\ pc = "updateVmUserScript"
    /\ HA
    /\ \E r \in Results :
        /\ log' = Append(log, Ev("updateInstUserScript", scriptIdx + 1,
                                 insts[scriptIdx + 1], r))
        /\ IF r = "err" THEN Stop("updateInstUserScript") /\ UNCHANGED scriptIdx
           ELSE /\ scriptIdx' = scriptIdx + 1
                /\ IF scriptIdx + 1 = NumInsts
                   THEN Ok("updateVmUserScript")
                   ELSE UNCHANGED <<pc, counter, polls, lastHit, err>>
    /\ UNCHANGED <<cvars, ovars, insts, hostname, HA, shard, manateeUUID, sapiUUID,
                   sapiMeta, sapiMode>>

updateSapiSvc == SharedStep("updateSapiSvc")

\* lines 420-432
getLocalManatee ==
    /\ pc = "getLocalManatee"
    /\ LET here == {z \in Zones : insts[z] = hostname} IN
        IF ~HA
        THEN manateeUUID' = 1 /\ Ok("getLocalManatee")
        ELSE IF here = {}
        THEN Throw /\ UNCHANGED manateeUUID
        ELSE /\ manateeUUID' = CHOOSE z \in here : \A y \in here : z <= y
             /\ Ok("getLocalManatee")
    /\ UNCHANGED <<cvars, ovars, insts, hostname, HA, shard, scriptIdx, sapiUUID,
                   sapiMeta, sapiMode, log>>

\* the roles a status lists when k peers are up; the peers are named after
\* the order of their roles
ShardOf(k) ==
    [r \in RoleSet |->
        LET i == CHOOSE j \in 1..3 : Roles[j] = r IN
        IF i <= k THEN [zoneId |-> i, server_uuid |-> 0] ELSE NoPeer]

\* lines 434-445: manatee-adm status in the local manatee; the status has
\* no sdc member (k = -1) or lists the first k roles
getShard ==
    /\ pc = "getShard"
    /\ \/ /\ log' = Append(log, Ev("getShard", manateeUUID, hostname, "err"))
          /\ Stop("getShardStatusLocally")
          /\ UNCHANGED shard
       \/ \E k \in (-1)..Min(3, NumInsts) :
            /\ log' = Append(log, Ev("getShard", manateeUUID, hostname, "ok"))
            /\ IF k < 0 THEN Throw /\ UNCHANGED shard
               ELSE shard' = ShardOf(k) /\ Ok("getShard")
    /\ UNCHANGED <<cvars, ovars, insts, hostname, HA, manateeUUID, scriptIdx, sapiUUID,
                   sapiMeta, sapiMode>>

\* lines 447-474
getShardServers ==
    /\ pc = "getShardServers"
    /\ IF ~HA
       THEN IF shard.primary = NoPeer
            THEN Throw /\ UNCHANGED shard
            ELSE /\ shard' = [shard EXCEPT !.primary.server_uuid = insts[1]]
                 /\ Ok("getShardServers")
       ELSE /\ shard' = [r \in RoleSet |->
                            IF shard[r] = NoPeer THEN NoPeer
                            ELSE [shard[r] EXCEPT
                                    !.server_uuid = insts[shard[r].zoneId]]]
            /\ Ok("getShardServers")
    /\ UNCHANGED <<cvars, ovars, insts, hostname, HA, manateeUUID, scriptIdx, sapiUUID,
                   sapiMeta, sapiMode, log>>

\* the log entry of a remote command on the shard member `role`
RemoteEv(op, role, r) ==
    IF op = "disable"
    THEN Ev("disable", shard[role].zoneId, shard[role].server_uuid, r)
    ELSE IF op = "reprovision"
    THEN EvImg("reprovision", shard[role].zoneId, shard[role].server_uuid, r)
    ELSE EvImg("install", 0, shard[role].server_uuid, r)

\* a remote command on a peer (disable, reprovision) or a server (install)
\* of the shard member `role`; reading a member the status did not list
\* throws
Remote(name, role, op) ==
    /\ pc = name
    /\ IF shard[role] = NoPeer
       THEN Throw /\ UNCHANGED log
       ELSE \E r \in Results :
            /\ log' = Append(log, RemoteEv(op, role, r))
            /\ IF r = "ok" THEN Ok(name) ELSE Stop(name)
    /\ UNCHANGED <<cvars, ovars, insts, hostname, HA, shard, manateeUUID, scriptIdx,
                   sapiUUID, sapiMeta, sapiMode>>

\* `return next()` of a function that does not apply to the topology
Skip(name) ==
    /\ pc = name
    /\ Ok(name)
    /\ UNCHANGED <<cvars, ovars, insts, hostname, HA, shard, manateeUUID, scriptIdx,
                   sapiUUID, sapiMeta, sapiMode, log>>

\* reading a property of a shard member the status did not list
ThrowStep(name) ==
    /\ pc = name
    /\ Throw
    /\ UNCHANGED <<cvars, ovars, insts, hostname, HA, shard, manateeUUID, scriptIdx,
                   sapiUUID, sapiMeta, sapiMode, log>>

\* lines 476-488
installPrimaryImage ==
    IF ~HA
    THEN /\ pc = "installPrimaryImage"
         /\ \E r \in Results :
              /\ log' = Append(log, EvImg("installLocal", 0, hostname, r))
              /\ IF r = "ok" THEN Ok("installPrimaryImage")
                 ELSE Stop("installPrimaryImage")
         /\ UNCHANGED <<cvars, ovars, insts, hostname, HA, shard, manateeUUID,
                        scriptIdx, sapiUUID, sapiMeta, sapiMode>>
    ELSE Remote("installPrimaryImage", "primary", "install")

(***************************************************************************)
(* HA only, lines 491-674.                                                 *)
(***************************************************************************)
\* What a second call of the pipeline's `next` does after the first one
\* ended the pipeline with an error. vasync is not part of this repository:
\* a version that guards its callback throws, one that does not marks the
\* following function as done and starts the one after it (or, if it kept
\* no count, the following one).
SecondNext(name) ==
    /\ pc' \in {"crashed", After(name), After(After(name))}
    /\ counter' = 0
    /\ polls' = 0
    /\ lastHit' = FALSE

\* lines 491-506: next('HA setup error') is not returned, so `return next()`
\* runs after it
verifyFullHA ==
    /\ pc = "verifyFullHA"
    /\ IF ~HA THEN Ok("verifyFullHA")
       ELSE IF shard.sync = NoPeer \/ shard.async = NoPeer
       THEN /\ err' = IF err = "none" THEN "HA setup error" ELSE err
            /\ SecondNext("verifyFullHA")
       ELSE Ok("verifyFullHA")
    /\ UNCHANGED <<cvars, ovars, insts, hostname, HA, shard, manateeUUID, scriptIdx,
                   sapiUUID, sapiMeta, sapiMode, log>>

\* lines 123-145, called with a member of arg.shard
disableManatee(name, role) == Remote(name, role, "disable")

\* lines 182-190, called with a member of arg.shard and arg.change.image
reprovisionRemote(name, role) == Remote(name, role, "reprovision")

\* lines 172-179, called with the server of a member of arg.shard
imgadmInstallRemote(name, role) == Remote(name, role, "install")

\* setTimeout(next, 60 * 1000) after a progress message that names the peer
Sleep(name, role) ==
    LET ev(r) == Ev("sleep", shard[role].zoneId, shard[role].server_uuid, r)
    IN /\ pc = name
       /\ IF shard[role] = NoPeer
          THEN Throw /\ UNCHANGED log
          ELSE log' = Append(log, ev("ok")) /\ Ok(name)
       /\ UNCHANGED <<cvars, ovars, insts, hostname, HA, shard, manateeUUID, scriptIdx,
                      sapiUUID, sapiMeta, sapiMode>>

\* line 231: mode === state
Matches(mode, state) == mode = state

\* the retry test off by one
MayRetry_OffByOne(c) == c <= ManateeLimit

\* line 235: counter < limit
MayRetry(c) == c < ManateeLimit

\* the promotion test that accepts any reported primary
Promoted_Any(p, orig) == TRUE

\* lines 660-661: shard.sdc.primary.zoneId !== arg.shard.primary.zoneId
Promoted(p, orig) == p # orig

\* lines 192-246: one round of _waitForStatus, the status being read from
\* the shard member `role`; of the status only its mode is used
waitForManatee(name, state, role) ==
    /\ pc = name
    /\ IF shard[role] = NoPeer
       THEN Throw /\ UNCHANGED log
       ELSE LET z == shard[role].zoneId
                sv == shard[role].server_uuid
                c == counter + 1
            IN
            \/ /\ log' = Append(log, EvWait(z, sv, "err", "", state))
               /\ Fail("getShardStatus")
               /\ counter' = 0
               /\ polls' = 0
               /\ lastHit' = FALSE
            \/ \E mode \in ObservedModes :
                IF Matches(mode, state)
                THEN /\ log' = Append(log, EvWait(z, sv, "ok", mode, state))
                     /\ Ok(name)
                ELSE /\ counter' = c
                     /\ polls' = polls + 1
                     /\ lastHit' = (mode = state)
                     /\ IF MayRetry(c)
                        THEN UNCHANGED <<pc, err, log>>
                        ELSE /\ log' = Append(log,
                                EvWait(z, sv, "timeout", mode, state))
                             /\ Fail("Timeout (15m) waiting for manatee")
    /\ UNCHANGED <<cvars, ovars, insts, hostname, HA, shard, manateeUUID, scriptIdx,
                   sapiUUID, sapiMeta, sapiMode>>

\* lines 508-515
disableAsync ==
    IF ~HA THEN Skip("disableAsync")
    ELSE disableManatee("disableAsync", "async")

\* lines 517-524
waitForAsyncDisabled ==
    IF ~HA THEN Skip("waitForAsyncDisabled")
    ELSE waitForManatee("waitForAsyncDisabled", "sync", "primary")

\* peers that are never taken to be on one server
SameServer_Never(a, b) == FALSE

\* lines 531-532, 594-597: the two peers are on the same server
SameServer(a, b) == a.server_uuid = b.server_uuid

\* lines 526-542
installImageAsyncServer ==
    IF ~HA THEN Skip("installImageAsyncServer")
    ELSE IF /\ shard.async # NoPeer
            /\ SameServer(shard.async, shard.primary)
    THEN Skip("installImageAsyncServer")
    ELSE imgadmInstallRemote("installImageAsyncServer", "async")

\* lines 544-551
reprovisionAsync ==
    IF ~HA THEN Skip("reprovisionAsync")
    ELSE reprovisionRemote("reprovisionAsync", "async")

\* lines 553-560
waitForAsync ==
    IF ~HA THEN Skip("waitForAsync") ELSE Sleep("waitForAsync", "async")

\* lines 562-569
waitForHA ==
    IF ~HA THEN Skip("waitForHA")
    ELSE waitForManatee("waitForHA", "async", "primary")

\* lines 571-578
disableSync ==
    IF ~HA THEN Skip("disableSync")
    ELSE disableManatee("disableSync", "sync")

\* lines 580-587
waitForSyncDisabled ==
    IF ~HA THEN Skip("waitForSyncDisabled")
    ELSE waitForManatee("waitForSyncDisabled", "sync", "primary")

\* lines 589-607
installImageSyncServer ==
    IF ~HA THEN Skip("installImageSyncServer")
    ELSE IF shard.sync = NoPeer THEN ThrowStep("installImageSyncServer")
    ELSE IF SameServer(shard.sync, shard.primary)
    THEN Skip("installImageSyncServer")
    ELSE IF shard.async = NoPeer THEN ThrowStep("installImageSyncServer")
    ELSE IF SameServer(shard.sync, shard.async)
    THEN Skip("installImageSyncServer")
    ELSE imgadmInstallRemote("installImageSyncServer", "sync")

\* lines 610-617
reprovisionSync ==
    IF ~HA THEN Skip("reprovisionSync")
    ELSE reprovisionRemote("reprovisionSync", "sync")

\* lines 619-626
waitForSync ==
    IF ~HA THEN Skip("waitForSync") ELSE Sleep("waitForSync", "sync")

\* lines 628-635
waitForHASync ==
    IF ~HA THEN Skip("waitForHASync")
    ELSE waitForManatee("waitForHASync", "async", "primary")

\* lines 637-644
disablePrimaryManatee ==
    IF ~HA THEN Skip("disablePrimaryManatee")
    ELSE disableManatee("disablePrimaryManatee", "primary")

\* lines 646-674: one round of _waitForShardPromotion; the status is read
\* from the async member and names zone p as primary (0: it names none).
\* `counter` is compared with `limit` but nothing in the loop changes it.
waitForShardPromotion ==
    IF ~HA THEN Skip("waitForShardPromotion")
    ELSE
    /\ pc = "waitForShardPromotion"
    /\ IF shard.async = NoPeer
       THEN Throw /\ UNCHANGED log
       ELSE LET z == shard.async.zoneId
                sv == shard.async.server_uuid
            IN
            \/ /\ log' = Append(log, Ev("promotion", z, sv, "err"))
               /\ Fail("getShardStatus")
               /\ polls' = 0
               /\ UNCHANGED <<counter, lastHit>>
            \/ \E p \in {0} \cup Zones :
                IF p = 0
                THEN /\ Crash
                     /\ polls' = 0
                     /\ UNCHANGED <<counter, lastHit, log>>
                ELSE IF Promoted(p, shard.primary.zoneId)
                THEN /\ log' = Append(log,
                                EvPromotion(z, sv, p # shard.primary.zoneId))
                     /\ Ok("waitForShardPromotion")
                ELSE IF counter < PromotionLimit
                THEN /\ polls < PollCap
                     /\ polls' = polls + 1
                     /\ UNCHANGED <<pc, counter, lastHit, err, log>>
                ELSE /\ log' = Append(log, Ev("promotion", z, sv, "timeout"))
                     /\ Fail("Timeout (3min) waiting for shard promotion")
                     /\ polls' = polls + 1
                     /\ UNCHANGED <<counter, lastHit>>
    /\ UNCHANGED <<cvars, ovars, insts, hostname, HA, shard, manateeUUID, scriptIdx,
                   sapiUUID, sapiMeta, sapiMode>>

(***************************************************************************)
(* no-HA only, lines 682-743.                                              *)
(***************************************************************************)
\* lines 682-707: vmadm lookup state=running alias=~sapi; the first line of
\* its output is taken, which is empty when no sapi zone runs here
getLocalSapi ==
    IF HA THEN Skip("getLocalSapi")
    ELSE
    /\ pc = "getLocalSapi"
    /\ \/ /\ log' = Append(log, Ev("getLocalSapi", 0, hostname, "err"))
          /\ Stop("getLocalSapi")
          /\ UNCHANGED sapiUUID
       \/ \E u \in {"", "sapi0"} :
            /\ log' = Append(log, Ev("getLocalSapi", 0, hostname, "ok"))
            /\ sapiUUID' = u
            /\ Ok("getLocalSapi")
    /\ UNCHANGED <<cvars, ovars, insts, hostname, HA, shard, manateeUUID, scriptIdx,
                   sapiMeta, sapiMode>>

\* lines 711-731: zlogin <sapiUUID> mdata-put SAPI_PROTO_MODE true
setSapiProtoMode ==
    IF HA THEN Skip("setSapiProtoMode")
    ELSE
    /\ pc = "setSapiProtoMode"
    /\ \E r \in IF sapiUUID = "" THEN {"err"} ELSE Results :
        /\ log' = Append(log, Ev("setSapiProtoMode", 0, hostname, r))
        /\ IF r = "ok"
           THEN sapiMeta' = TRUE /\ Ok("setSapiProtoMode")
           ELSE Stop("setSapiProtoMode") /\ UNCHANGED sapiMeta
    /\ UNCHANGED <<cvars, ovars, insts, hostname, HA, shard, manateeUUID, scriptIdx,
                   sapiUUID, sapiMode>>

\* lines 733-743: svcadm restart of the sapi service, which comes up in the
\* mode its metadata asks for
restartSapiIntoProtoMode ==
    IF HA THEN Skip("restartSapiIntoProtoMode")
    ELSE
    /\ pc = "restartSapiIntoProtoMode"
    /\ \E r \in Results :
        /\ log' = Append(log, Ev("restartSapi", 0, hostname, r))
        /\ IF r = "ok"
           THEN /\ sapiMode' = IF sapiMeta THEN "proto" ELSE sapiMode
                /\ Ok("restartSapiIntoProtoMode")
           ELSE Stop("restartSapiIntoProtoMode") /\ UNCHANGED sapiMode
    /\ UNCHANGED <<cvars, ovars, insts, hostname, HA, shard, manateeUUID, scriptIdx,
                   sapiUUID, sapiMeta>>

(***************************************************************************)
(* Shared between HA and no-HA, lines 746-758.                             *)
(***************************************************************************)
\* lines 746-749
reprovisionPrimary == reprovisionRemote("reprovisionPrimary", "primary")

\* lines 751-758
waitForPrimaryInstance == Sleep("waitForPrimaryInstance", "primary")

(***************************************************************************)
(* Again no-HA only, lines 761-775, and the last HA step, lines 778-785.   *)
(***************************************************************************)
\* lines 329-373: one round of _waitForPostgresUp; `counter` is compared
\* with `limit` but nothing in the loop changes it
waitForPostgresUp(name) ==
    /\ pc = name
    /\ IF shard.primary = NoPeer
       THEN Throw /\ UNCHANGED log
       ELSE LET z == shard.primary.zoneId
                sv == shard.primary.server_uuid
            IN
            \E up \in BOOLEAN :
                IF up
                THEN /\ log' = Append(log, Ev("postgresUp", z, sv, "ok"))
                     /\ Ok(name)
                ELSE IF counter < PostgresLimit
                THEN /\ polls < PollCap
                     /\ polls' = polls + 1
                     /\ UNCHANGED <<pc, counter, lastHit, err, log>>
                ELSE /\ log' = Append(log, Ev("postgresUp", z, sv, "timeout"))
                     /\ Fail("Timeout (60s) waiting for Postgres")
                     /\ polls' = polls + 1
                     /\ UNCHANGED <<counter, lastHit>>
    /\ UNCHANGED <<cvars, ovars, insts, hostname, HA, shard, manateeUUID, scriptIdx,
                   sapiUUID, sapiMeta, sapiMode>>

\* lines 761-767
waitForPrimaryPG ==
    IF HA THEN Skip("waitForPrimaryPG")
    ELSE waitForPostgresUp("waitForPrimaryPG")

\* lines 769-775: sdcadm.sapi.setMode('full', next)
resetSapiToFullMode ==
    IF HA THEN Skip("resetSapiToFullMode")
    ELSE
    /\ pc = "resetSapiToFullMode"
    /\ \E r \in Results :
        /\ log' = Append(log, Ev("setMode", 0, hostname, r))
        /\ IF r = "ok"
           THEN sapiMode' = "full" /\ Ok("resetSapiToFullMode")
           ELSE Stop("resetSapiToFullMode") /\ UNCHANGED sapiMode
    /\ UNCHANGED <<cvars, ovars, insts, hostname, HA, shard, manateeUUID, scriptIdx,
                   sapiUUID, sapiMeta>>

\* lines 778-785
waitForShardHA ==
    IF ~HA THEN Skip("waitForShardHA")
    ELSE waitForManatee("waitForShardHA", "async", "async")

ManateeNext ==
    \/ updateManatee
    \/ getUserScript
    \/ writeOldUserScriptForRollback
    \/ updateSvcUserScript
    \/ updateVmUserScript
    \/ updateInstUserScript
    \/ updateSapiSvc
    \/ getLocalManatee
    \/ getShard
    \/ getShardServers
    \/ installPrimaryImage
    \/ verifyFullHA
    \/ disableAsync
    \/ waitForAsyncDisabled
    \/ installImageAsyncServer
    \/ reprovisionAsync
    \/ waitForAsync
    \/ waitForHA
    \/ disableSync
    \/ waitForSyncDisabled
    \/ installImageSyncServer
    \/ reprovisionSync
    \/ waitForSync
    \/ waitForHASync
    \/ disablePrimaryManatee
    \/ waitForShardPromotion
    \/ getLocalSapi
    \/ setSapiProtoMode
    \/ restartSapiIntoProtoMode
    \/ reprovisionPrimary
    \/ waitForPrimaryInstance
    \/ waitForPrimaryPG
    \/ resetSapiToFullMode
    \/ waitForShardHA

(***************************************************************************)
(* coordinatePlan, lib/procedures/index.js lines 79-523.                   *)
(***************************************************************************)
\* largest number of changes in a plan
MaxChanges == 2

\* line 154-156
simpleServices == {"adminui", "amon", "amonredis", "assets", "ca", "cloudapi",
                   "cnapi", "dhcpd", "fwapi", "napi", "papi", "rabbitmq",
                   "redis", "sdc", "vmapi", "workflow", "manta"}

\* the services the plans of the model are made of, in the order in which
\* they can follow each other in plan.changes
PlanServices == <<"mahi", "vmapi", "manatee", "portolan", "sapi", "imgapi",
                  "moray", "cnapi", "binder", "ufds">>
\* image uuids: every change has an image of its own, ImageOf(i) for the
\* i-th change, or all changes have the image SharedImage
ImageOf(i) == i
SharedImage == 0
\* os.hostname() and the hostname of a compute node
currHostname == "headnode"
Hostnames == {currHostname, "cn1"}

\* the instances a service can have: none, one here, one elsewhere, two
InstChoices == {<<>>, <<currHostname>>, <<"cn1">>, <<currHostname, "cn1">>}

Change(svc, img) ==
    [type |-> "update-service", service |-> svc, image |-> img,
     inst |-> "", insts |-> <<>>]

Inst(svc, host) == [service |-> svc, hostname |-> host]

RECURSIVE Flatten(_)
Flatten(ss) == IF ss = <<>> THEN <<>> ELSE Head(ss) \o Flatten(Tail(ss))

\* strictly increasing index sequences of length k into 1..n
RECURSIVE Picks(_, _, _)
Picks(k, lo, n) ==
    IF k = 0 THEN {<<>>}
    ELSE UNION {{<<i>> \o t : t \in Picks(k - 1, i + 1, n)} : i \in lo..n}

ImageChoices(k) ==
    {[i \in 1..k |-> ImageOf(i)], [i \in 1..k |-> SharedImage]}

ImagesOf(pl) == {pl.changes[i].image : i \in 1..Len(pl.changes)}

\* a plan as genUpdatePlan hands it over: update-service changes on the
\* services picked, each with one image, and the instances of each service
PlanOf(pick, img, ic, ji) ==
    LET k == Len(pick)
    IN [changes |-> [i \in 1..k |-> Change(PlanServices[pick[i]], img[i])],
        curr |-> Flatten([i \in 1..k |->
                    [j \in 1..Len(ic[i]) |->
                        Inst(PlanServices[pick[i]], ic[i][j])]]),
        justImages |-> ji]

CoordInit ==
    /\ \E k \in 0..MaxChanges :
         \E pick \in Picks(k, 1, Len(PlanServices)), img \in ImageChoices(k),
            ic \in [1..k -> InstChoices], ji \in BOOLEAN :
              plan = PlanOf(pick, img, ic, ji)
    /\ imgapiMissing \in SUBSET ImagesOf(plan)
    /\ cpc = "coordImages"
    /\ changes = plan.changes
    /\ procs = <<>>
    /\ cerr = "none"
    /\ summary = <<>>
    /\ returned = <<>>
    /\ cfirst = NoRun
    \* the manatee procedure is not running
    /\ pc = "idle"
    /\ insts = <<1>>
    /\ hostname = 1
    /\ HA = FALSE
    /\ shard = [r \in RoleSet |-> NoPeer]
    /\ manateeUUID = 0
    /\ scriptIdx = 0
    /\ counter = 0
    /\ polls = 0
    /\ lastHit = FALSE
    /\ sapiUUID = ""
    /\ sapiMeta = FALSE
    /\ sapiMode = "full"
    /\ err = "none"
    /\ log = <<>>
    \* execUpdatePlan is not running
    /\ xpc = "idle"
    /\ xdry = FALSE
    /\ xuuid = FALSE
    /\ xprocs = 0
    /\ xi = 0
    /\ xlog = <<>>
    /\ xhist = NoHist
    /\ xerr = "none"
    /\ xupdated = 0
    /\ xcb = <<>>
    \* selfUpdate is not running
    /\ spc = "idle"
    /\ sdry = FALSE
    /\ sunlock = FALSE
    /\ slocked = FALSE
    /\ sacquires = 0
    /\ sunlocks = 0
    /\ smanifest = FALSE
    /\ shist = NoHist
    /\ serr = "none"
    /\ sfin = "none"
    /\ scb = <<>>
    \* genUpdatePlan is not running
    /\ gpc = "idle"
    /\ greqs = <<>>
    /\ gforceSame = FALSE
    /\ gforceRabbit = FALSE
    /\ gjust = FALSE
    /\ gchanges = <<>>
    /\ ginsts = <<>>
    /\ gerr = "none"
    /\ gplan = NoPlan
    /\ gcb = <<>>
    /\ gerrs = <<>>
    /\ gcalls = {}
    \* getInstances is not running
    /\ ipc = "idle"
    /\ iagents = <<>>
    /\ isapiInst = NoAgentInsts
    /\ ivms = <<>>
    /\ ipending = {}
    /\ iinsts = <<>>
    /\ ierrs = {}
    /\ ierr = "none"
    /\ icb = <<>>
    \* getCandidateImages is not running
    /\ kpc = "idle"
    /\ kinuse = <<>>
    /\ klocal = {}
    /\ kupstream = {}
    /\ klook = <<>>
    /\ kcurr = <<>>
    /\ kerrs = {}
    /\ kimgs = <<>>
    /\ kerr = "none"
    /\ kcb = <<>>
    /\ klog = <<>>
    \* waitForManatee is not running on its own
    /\ wpc = "idle"
    /\ wstate = ""
    /\ wobj = NoStatus
    /\ wmode = ""
    /\ wcounter = 0
    /\ wcb = ""

\* lines 91-100
instsFromSvcName(svcName) ==
    LET of(inst) == inst.service = svcName IN SelectSeq(plan.curr, of)

Proc(class, handle, images) ==
    [class |-> class, changes |-> handle, images |-> images]

\* the functions of the pipeline, lines 104-498
CoordStepsInOrder ==
    <<"coordImages", "updateSimpleServices", "updateSingleHeadnodeImgapi",
      "updateSingleHeadnodeUFDS", "updateMorays", "updateSingleHeadnodeSapi",
      "updateManatees", "updateBinder", "updateMahi">>

\* the sapi filter listed after the manatee filter
CoordSteps_ManateeBeforeSapi ==
    Swapped(CoordStepsInOrder, "updateSingleHeadnodeSapi", "updateManatees")

CoordSteps == CoordStepsInOrder

CoordAfter(name) ==
    LET i == CHOOSE j \in 1..Len(CoordSteps) : CoordSteps[j] = name IN
    IF i = Len(CoordSteps) THEN "done" ELSE CoordSteps[i + 1]

\* the first-seen order of the distinct members of a sequence
RECURSIVE Distinct(_)
Distinct(q) ==
    IF q = <<>> THEN <<>>
    ELSE LET rest == Distinct(SelectSeq(Tail(q), LAMBDA x : x # Head(q)))
         IN <<Head(q)>> \o rest

\* all orders in which the members of a set can be pushed
RECURSIVE Orders(_)
Orders(set) ==
    IF set = {} THEN {<<>>}
    ELSE UNION {{<<x>> \o t : t \in Orders(set \ {x})} : x \in set}

\* every image taken to be missing
Retrieved_All(found) == found

\* a lookup that remembers the images an earlier run has asked for
Retrieved_Cached(found) ==
    IF cfirst.defined THEN {} ELSE found \cap imgapiMissing

\* lines 123-127, 134-140: the images pushed when forEachParallel calls
\* back, those imgapi answered ResourceNotFound for
Retrieved(found) == found \cap imgapiMissing

\* lines 109-143: the images of the changes are looked up in parallel; a
\* lookup other than ResourceNotFound may fail
coordImages ==
    /\ cpc = "coordImages"
    /\ LET images == Distinct([c \in 1..Len(changes) |-> changes[c].image])
           found == {images[i] : i \in 1..Len(images)}
       IN
       \/ /\ found # {}
          /\ found \ imgapiMissing # {}
          /\ cerr' = "SDCClientError"
          /\ cpc' = "done"
          /\ UNCHANGED procs
       \/ \E imagesToRetrieve \in Orders(Retrieved(found)) :
            /\ procs' = IF Len(imagesToRetrieve) > 0
                        THEN Append(procs, Proc("DownloadImages", <<>>,
                                                imagesToRetrieve))
                        ELSE procs
            /\ cpc' = CoordAfter("coordImages")
            /\ UNCHANGED cerr
    /\ UNCHANGED <<mvars, ovars, cfirst, plan, imgapiMissing, changes, summary, returned>>

\* the loop body shared by the filters for one service on the headnode: a
\* matching change is handled when the service has one instance and it is
\* on this host, and is otherwise put on neither list
MatchesSvc(change, names) ==
    change.type = "update-service" /\ change.service \in names

\* a test that does not look at the host of the instance
OnHeadnode_AnyHost(change) == Len(instsFromSvcName(change.service)) = 1

OnHeadnode(change) ==
    LET svcInsts == instsFromSvcName(change.service) IN
    Len(svcInsts) = 1 /\ svcInsts[1].hostname = currHostname

BindInst(change) ==
    LET svcInsts == instsFromSvcName(change.service) IN
    [change EXCEPT !.inst = svcInsts[1].hostname]

\* a binding of the first instance only
BindAll_First(change) ==
    LET svcInsts == instsFromSvcName(change.service) IN
    IF Len(svcInsts) >= 1
    THEN [change EXCEPT !.inst = svcInsts[1].hostname]
    ELSE change

\* lines 300-305 and 389-394: all instances are bound when there are
\* several, the first one (if any) otherwise
BindAll(change) ==
    LET svcInsts == instsFromSvcName(change.service) IN
    IF Len(svcInsts) > 1
    THEN [change EXCEPT
            !.insts = [i \in 1..Len(svcInsts) |-> svcInsts[i].hostname]]
    ELSE IF Len(svcInsts) = 1
    THEN [change EXCEPT !.inst = svcInsts[1].hostname]
    ELSE change

\* a simple-service filter that skips a service without instances
Takes_NoEmpty(kind, change) ==
    IF kind = "all" THEN TRUE ELSE OnHeadnode(change)

\* which matching changes a filter of the given kind pushes on `handle`:
\* "single" (one instance, on this host), "simple" (that, or no instance
\* at all), "all" (any number of instances anywhere)
Takes(kind, change) ==
    IF kind = "all" THEN TRUE
    ELSE IF kind = "simple"
    THEN Len(instsFromSvcName(change.service)) = 0 \/ OnHeadnode(change)
    ELSE OnHeadnode(change)

\* the change as it is pushed on `handle`
Bind(kind, change) ==
    IF kind = "all" THEN BindAll(change)
    ELSE IF Len(instsFromSvcName(change.service)) = 0 THEN change
    ELSE BindInst(change)

\* handle and remaining of a filter
Handle(names, kind) ==
    LET hit(ch) == MatchesSvc(ch, names) /\ Takes(kind, ch)
        h == SelectSeq(changes, hit)
    IN [i \in 1..Len(h) |-> Bind(kind, h[i])]

Remaining(names) ==
    LET miss(ch) == ~MatchesSvc(ch, names) IN SelectSeq(changes, miss)

\* the end of every filter: if (handle.length) { changes = remaining;
\* procs.push(new Class({changes: handle})) } next()
Filter(name, class, names, kind) ==
    /\ cpc = name
    /\ LET handle == Handle(names, kind) IN
        IF Len(handle) > 0
        THEN /\ changes' = Remaining(names)
             /\ procs' = Append(procs, Proc(class, handle, <<>>))
        ELSE UNCHANGED <<changes, procs>>
    /\ cpc' = CoordAfter(name)
    /\ UNCHANGED <<mvars, ovars, cfirst, plan, imgapiMissing, cerr, summary, returned>>

\* lines 153-207
updateSimpleServices ==
    Filter("updateSimpleServices", "UpdateStatelessServicesV1",
           simpleServices, "simple")

\* lines 209-248
updateSingleHeadnodeImgapi ==
    Filter("updateSingleHeadnodeImgapi", "UpdateSingleHeadnodeImgapi",
           {"imgapi"}, "single")

\* lines 250-289
updateSingleHeadnodeUFDS ==
    Filter("updateSingleHeadnodeUFDS", "UpdateUFDSServiceV1",
           {"ufds"}, "single")

\* lines 293-321
updateMorays ==
    Filter("updateMorays", "UpdateMorayV2", {"moray"}, "all")

\* lines 323-362
updateSingleHeadnodeSapi ==
    Filter("updateSingleHeadnodeSapi", "UpdateSingleHNSapiV1",
           {"sapi"}, "single")

\* lines 377-410
updateManatees ==
    Filter("updateManatees", "UpdateManateeV2", {"manatee"}, "all")

\* lines 412-449
updateBinder ==
    Filter("updateBinder", "UpdateBinderV1", {"binder"}, "single")

\* lines 451-488
updateMahi ==
    Filter("updateMahi", "UpdateMahiV1", {"mahi"}, "single")

\* a summary that stops after the first change
Summarize_First(chs) ==
    [i \in 1..Min(1, Len(chs)) |-> [type |-> chs[i].type,
                                    service |-> chs[i].service,
                                    image |-> chs[i].image]]

\* lines 502-509: type, service name and image uuid of each change
Summarize(chs) ==
    [i \in 1..Len(chs) |-> [type |-> chs[i].type,
                            service |-> chs[i].service,
                            image |-> chs[i].image]]

\* a filter that lets every procedure through
OnlyDownloadImages_All(ps) == ps

\* lines 516-518
OnlyDownloadImages(ps) ==
    SelectSeq(ps, LAMBDA proc : proc.class = "DownloadImages")

\* lines 498-522
done ==
    /\ cpc = "done"
    /\ cpc' = "returned"
    /\ IF cerr # "none"
       THEN UNCHANGED <<cerr, summary, returned, procs>>
       ELSE IF Len(changes) > 0
       THEN /\ cerr' = "UpdateError"
            /\ summary' = Summarize(changes)
            /\ UNCHANGED <<returned, procs>>
       ELSE /\ procs' = IF plan.justImages THEN OnlyDownloadImages(procs)
                        ELSE procs
            /\ returned' = procs'
            /\ UNCHANGED <<cerr, summary>>
    /\ UNCHANGED <<mvars, ovars, cfirst, plan, imgapiMissing, changes>>

CoordNext ==
    \/ coordImages
    \/ updateSimpleServices
    \/ updateSingleHeadnodeImgapi
    \/ updateSingleHeadnodeUFDS
    \/ updateMorays
    \/ updateSingleHeadnodeSapi
    \/ updateManatees
    \/ updateBinder
    \/ updateMahi
    \/ done

(***************************************************************************)
(* execUpdatePlan, lines 3030-3144.                                        *)
(***************************************************************************)
\* largest number of procedures in plan.procs
MaxProcs == 3

ExecInit ==
    /\ xpc = "createWrkDir"
    /\ xdry \in BOOLEAN
    /\ xuuid \in BOOLEAN
    /\ xprocs \in 0..MaxProcs
    /\ xi = 0
    /\ xlog = <<>>
    /\ xhist = NoHist
    /\ xerr = "none"
    /\ xupdated = 0
    /\ xcb = <<>>
    \* updateManatee is not running
    /\ pc = "idle"
    /\ insts = <<1>>
    /\ hostname = 1
    /\ HA = FALSE
    /\ shard = [r \in RoleSet |-> NoPeer]
    /\ manateeUUID = 0
    /\ scriptIdx = 0
    /\ counter = 0
    /\ polls = 0
    /\ lastHit = FALSE
    /\ sapiUUID = ""
    /\ sapiMeta = FALSE
    /\ sapiMode = "full"
    /\ err = "none"
    /\ log = <<>>
    \* coordinatePlan is not running
    /\ plan = [changes |-> <<>>, curr |-> <<>>, justImages |-> FALSE]
    /\ imgapiMissing = {}
    /\ cpc = "idle"
    /\ changes = <<>>
    /\ procs = <<>>
    /\ cerr = "none"
    /\ summary = <<>>
    /\ returned = <<>>
    /\ cfirst = NoRun
    \* selfUpdate is not running
    /\ spc = "idle"
    /\ sdry = FALSE
    /\ sunlock = FALSE
    /\ slocked = FALSE
    /\ sacquires = 0
    /\ sunlocks = 0
    /\ smanifest = FALSE
    /\ shist = NoHist
    /\ serr = "none"
    /\ sfin = "none"
    /\ scb = <<>>
    \* genUpdatePlan is not running
    /\ gpc = "idle"
    /\ greqs = <<>>
    /\ gforceSame = FALSE
    /\ gforceRabbit = FALSE
    /\ gjust = FALSE
    /\ gchanges = <<>>
    /\ ginsts = <<>>
    /\ gerr = "none"
    /\ gplan = NoPlan
    /\ gcb = <<>>
    /\ gerrs = <<>>
    /\ gcalls = {}
    \* getInstances is not running
    /\ ipc = "idle"
    /\ iagents = <<>>
    /\ isapiInst = NoAgentInsts
    /\ ivms = <<>>
    /\ ipending = {}
    /\ iinsts = <<>>
    /\ ierrs = {}
    /\ ierr = "none"
    /\ icb = <<>>
    \* getCandidateImages is not running
    /\ kpc = "idle"
    /\ kinuse = <<>>
    /\ klocal = {}
    /\ kupstream = {}
    /\ klook = <<>>
    /\ kcurr = <<>>
    /\ kerrs = {}
    /\ kimgs = <<>>
    /\ kerr = "none"
    /\ kcb = <<>>
    /\ klog = <<>>
    \* waitForManatee is not running on its own
    /\ wpc = "idle"
    /\ wstate = ""
    /\ wobj = NoStatus
    /\ wmode = ""
    /\ wcounter = 0
    /\ wcb = ""

\* next() and next(e) of the pipeline of execUpdatePlan
ExecNext(to) == xpc' = to /\ UNCHANGED xerr
ExecFail(e) == xpc' = "finish" /\ xerr' = e

XEv(ev, i) == [ev |-> ev, i |-> i]

\* lines 3047-3070
exec_createWrkDir ==
    /\ xpc = "createWrkDir"
    /\ IF xdry THEN ExecNext("savePlan")
       ELSE \/ ExecNext("savePlan")
            \/ ExecFail("WrkDirError")
    /\ UNCHANGED <<mvars, cvars, svars, gvars, ivars, kvars, wvars, xdry, xuuid, xprocs, xi, xlog, xhist,
                   xupdated, xcb>>

\* lines 3072-3089
exec_savePlan ==
    /\ xpc = "savePlan"
    /\ IF xdry THEN ExecNext("saveBeginningToHistory")
       ELSE \/ ExecNext("saveBeginningToHistory")
            \/ ExecFail("SavePlanError")
    /\ UNCHANGED <<mvars, cvars, svars, gvars, ivars, kvars, wvars, xdry, xuuid, xprocs, xi, xlog, xhist,
                   xupdated, xcb>>

\* lines 3091-3107
exec_saveBeginningToHistory ==
    /\ xpc = "saveBeginningToHistory"
    /\ \/ /\ xhist' = [defined |-> TRUE, uuid |-> xuuid, error |-> "none"]
          /\ ExecNext("execProcedures")
       \/ /\ ExecFail("SaveHistoryError")
          /\ UNCHANGED xhist
    /\ UNCHANGED <<mvars, cvars, svars, gvars, ivars, kvars, wvars, xdry, xuuid, xprocs, xi, xlog, xupdated,
                   xcb>>

\* lines 3109-3126: forEachPipeline starts the first procedure, or calls
\* back at once when there is none
exec_execProcedures ==
    /\ xpc = "execProcedures"
    /\ IF xdry \/ xprocs = 0
       THEN /\ ExecNext("finish")
            /\ UNCHANGED <<xi, xlog>>
       ELSE /\ xi' = 1
            /\ xlog' = Append(xlog, XEv("start", 1))
            /\ ExecNext("execProc")
    /\ UNCHANGED <<mvars, cvars, svars, gvars, ivars, kvars, wvars, xdry, xuuid, xprocs, xhist, xupdated, xcb>>

\* a forEachPipeline that goes on after an error
Continue_Always(res) == TRUE

\* forEachPipeline goes on to the next input after a callback without error
Continue(res) == res = "ok"

\* lines 3115-3125: proc.execute calls nextProc
exec_nextProc ==
    /\ xpc = "execProc"
    /\ \E res \in Results :
        LET seen == Append(xlog, XEv(res, xi))
            e == IF xerr = "none" /\ res = "err" THEN "ProcError" ELSE xerr
        IN IF Continue(res) /\ xi < xprocs
           THEN /\ xi' = xi + 1
                /\ xlog' = Append(seen, XEv("start", xi + 1))
                /\ xpc' = "execProc"
                /\ xerr' = e
           ELSE /\ xlog' = seen
                /\ xpc' = "finish"
                /\ xerr' = e
                /\ UNCHANGED xi
    /\ UNCHANGED <<mvars, cvars, svars, gvars, ivars, kvars, wvars, xdry, xuuid, xprocs, xhist, xupdated, xcb>>

\* lines 3128-3134: the callback of the pipeline sets hist.error and calls
\* updateHistory; `hist` is undefined when saveHistory has not succeeded
exec_finish ==
    /\ xpc = "finish"
    /\ IF xerr # "none" /\ ~xhist.defined
       THEN /\ xpc' = "crashed"
            /\ UNCHANGED <<xhist, xupdated>>
       ELSE /\ xhist' = IF xerr # "none" THEN [xhist EXCEPT !.error = xerr]
                        ELSE xhist
            /\ xupdated' = xupdated + 1
            /\ xpc' = "updateHistory"
    /\ UNCHANGED <<mvars, cvars, svars, gvars, ivars, kvars, wvars, xdry, xuuid, xprocs, xi, xlog, xerr, xcb>>

\* lines 3134-3142
exec_updateHistory ==
    /\ xpc = "updateHistory"
    /\ \E err2 \in Results :
        xcb' = Append(xcb, IF xerr # "none" THEN xerr
                           ELSE IF err2 = "err" THEN "HistoryError"
                           ELSE "none")
    /\ xpc' = "returned"
    /\ UNCHANGED <<mvars, cvars, svars, gvars, ivars, kvars, wvars, xdry, xuuid, xprocs, xi, xlog, xhist, xerr,
                   xupdated>>

ExecUpdatePlanNext ==
    \/ exec_createWrkDir
    \/ exec_savePlan
    \/ exec_saveBeginningToHistory
    \/ exec_execProcedures
    \/ exec_nextProc
    \/ exec_finish
    \/ exec_updateHistory

(***************************************************************************)
(* selfUpdate, lines 3163-3469, with acquireLock and releaseLock,          *)
(* lines 2341-2392.                                                        *)
(***************************************************************************)
SelfInit ==
    /\ spc = "getLock"
    /\ sdry \in BOOLEAN
    /\ sunlock = FALSE
    /\ slocked = FALSE
    /\ sacquires = 0
    /\ sunlocks = 0
    /\ smanifest = FALSE
    /\ shist = NoHist
    /\ serr = "none"
    /\ sfin = "none"
    /\ scb = <<>>
    \* updateManatee is not running
    /\ pc = "idle"
    /\ insts = <<1>>
    /\ hostname = 1
    /\ HA = FALSE
    /\ shard = [r \in RoleSet |-> NoPeer]
    /\ manateeUUID = 0
    /\ scriptIdx = 0
    /\ counter = 0
    /\ polls = 0
    /\ lastHit = FALSE
    /\ sapiUUID = ""
    /\ sapiMeta = FALSE
    /\ sapiMode = "full"
    /\ err = "none"
    /\ log = <<>>
    \* coordinatePlan is not running
    /\ plan = [changes |-> <<>>, curr |-> <<>>, justImages |-> FALSE]
    /\ imgapiMissing = {}
    /\ cpc = "idle"
    /\ changes = <<>>
    /\ procs = <<>>
    /\ cerr = "none"
    /\ summary = <<>>
    /\ returned = <<>>
    /\ cfirst = NoRun
    \* execUpdatePlan is not running
    /\ xpc = "idle"
    /\ xdry = FALSE
    /\ xuuid = FALSE
    /\ xprocs = 0
    /\ xi = 0
    /\ xlog = <<>>
    /\ xhist = NoHist
    /\ xerr = "none"
    /\ xupdated = 0
    /\ xcb = <<>>
    \* genUpdatePlan is not running
    /\ gpc = "idle"
    /\ greqs = <<>>
    /\ gforceSame = FALSE
    /\ gforceRabbit = FALSE
    /\ gjust = FALSE
    /\ gchanges = <<>>
    /\ ginsts = <<>>
    /\ gerr = "none"
    /\ gplan = NoPlan
    /\ gcb = <<>>
    /\ gerrs = <<>>
    /\ gcalls = {}
    \* getInstances is not running
    /\ ipc = "idle"
    /\ iagents = <<>>
    /\ isapiInst = NoAgentInsts
    /\ ivms = <<>>
    /\ ipending = {}
    /\ iinsts = <<>>
    /\ ierrs = {}
    /\ ierr = "none"
    /\ icb = <<>>
    \* getCandidateImages is not running
    /\ kpc = "idle"
    /\ kinuse = <<>>
    /\ klocal = {}
    /\ kupstream = {}
    /\ klook = <<>>
    /\ kcurr = <<>>
    /\ kerrs = {}
    /\ kimgs = <<>>
    /\ kerr = "none"
    /\ kcb = <<>>
    /\ klog = <<>>
    \* waitForManatee is not running on its own
    /\ wpc = "idle"
    /\ wstate = ""
    /\ wobj = NoStatus
    /\ wmode = ""
    /\ wcounter = 0
    /\ wcb = ""

\* the functions of the pipeline of selfUpdate, lines 3192-3423
SelfSteps ==
    <<"getLock", "setStart", "getCurrBuildtime", "findLatestSdcAdm",
      "saveChangesToHistory", "downloadInstaller", "createWrkDir",
      "runInstaller">>

\* the functions of the pipeline of finishUp, lines 3427-3459
FinishStepsInOrder == <<"dropLock", "updateHist", "noteCompletion">>

\* the history is updated before the lock is dropped
FinishSteps_HistFirst == <<"updateHist", "dropLock", "noteCompletion">>

FinishSteps == FinishStepsInOrder

\* the function that follows `name`: the pipeline of selfUpdate hands over
\* to finishUp, whose pipeline hands over to done
SelfAfter(name) ==
    LET all == SelfSteps \o FinishSteps
        i == CHOOSE j \in 1..Len(all) : all[j] = name
    IN IF i = Len(all) THEN "done" ELSE all[i + 1]

\* next() of either pipeline
SelfNext(name) == spc' = SelfAfter(name) /\ UNCHANGED <<serr, sfin>>

\* next(e) in the pipeline of selfUpdate: finishUp(e) starts its pipeline
SelfFail(e) == spc' = FinishSteps[1] /\ serr' = e /\ UNCHANGED sfin

\* next(e) in the pipeline of finishUp
FinishFail(e) == spc' = "done" /\ sfin' = e /\ UNCHANGED serr

\* a step that does one fallible thing
SelfCall(name, e) == SelfNext(name) \/ SelfFail(e)

\* lines 3192-3200 and 2341-2365
self_getLock ==
    /\ spc = "getLock"
    /\ IF sdry
       THEN /\ SelfNext("getLock")
            /\ UNCHANGED <<sunlock, slocked, sacquires>>
       ELSE /\ sacquires' = sacquires + 1
            /\ \/ /\ sunlock' = TRUE
                  /\ slocked' = TRUE
                  /\ SelfNext("getLock")
               \/ /\ SelfFail("LockError")
                  /\ UNCHANGED <<sunlock, slocked>>
    /\ UNCHANGED <<mvars, cvars, xvars, gvars, ivars, kvars, wvars, sdry, sunlocks, smanifest, shist, scb>>

\* lines 3201-3205
self_setStart ==
    /\ spc = "setStart"
    /\ SelfNext("setStart")
    /\ UNCHANGED <<mvars, cvars, xvars, gvars, ivars, kvars, wvars, sdry, sunlock, slocked, sacquires,
                   sunlocks, smanifest, shist, scb>>

\* lines 3207-3226
self_getCurrBuildtime ==
    /\ spc = "getCurrBuildtime"
    /\ SelfCall("getCurrBuildtime", "BuildstampError")
    /\ UNCHANGED <<mvars, cvars, xvars, gvars, ivars, kvars, wvars, sdry, sunlock, slocked, sacquires,
                   sunlocks, smanifest, shist, scb>>

\* lines 3228-3308: updateManifest is set when a candidate is left
self_findLatestSdcAdm ==
    /\ spc = "findLatestSdcAdm"
    /\ \/ /\ smanifest' \in BOOLEAN
          /\ SelfNext("findLatestSdcAdm")
       \/ /\ SelfFail("SDCClientError")
          /\ UNCHANGED smanifest
    /\ UNCHANGED <<mvars, cvars, xvars, gvars, ivars, kvars, wvars, sdry, sunlock, slocked, sacquires,
                   sunlocks, shist, scb>>

\* lines 3310-3324
self_saveChangesToHistory ==
    /\ spc = "saveChangesToHistory"
    /\ IF ~smanifest
       THEN SelfNext("saveChangesToHistory") /\ UNCHANGED shist
       ELSE \/ /\ shist' = [defined |-> TRUE, uuid |-> FALSE,
                            error |-> "none"]
               /\ SelfNext("saveChangesToHistory")
            \/ /\ SelfFail("SaveHistoryError")
               /\ UNCHANGED shist
    /\ UNCHANGED <<mvars, cvars, xvars, gvars, ivars, kvars, wvars, sdry, sunlock, slocked, sacquires,
                   sunlocks, smanifest, scb>>

\* lines 3326-3361
self_downloadInstaller ==
    /\ spc = "downloadInstaller"
    /\ IF ~smanifest \/ sdry
       THEN SelfNext("downloadInstaller")
       ELSE \/ SelfNext("downloadInstaller")
            \/ SelfFail("DownloadError")
            \/ SelfFail("ChmodError")
    /\ UNCHANGED <<mvars, cvars, xvars, gvars, ivars, kvars, wvars, sdry, sunlock, slocked, sacquires,
                   sunlocks, smanifest, shist, scb>>

\* lines 3363-3385
self_createWrkDir ==
    /\ spc = "createWrkDir"
    /\ IF ~smanifest
       THEN SelfNext("createWrkDir")
       ELSE SelfCall("createWrkDir", "WrkDirError")
    /\ UNCHANGED <<mvars, cvars, xvars, gvars, ivars, kvars, wvars, sdry, sunlock, slocked, sacquires,
                   sunlocks, smanifest, shist, scb>>

\* lines 3387-3423
self_runInstaller ==
    /\ spc = "runInstaller"
    /\ IF ~smanifest \/ sdry
       THEN SelfNext("runInstaller")
       ELSE SelfCall("runInstaller", "InstallerError")
    /\ UNCHANGED <<mvars, cvars, xvars, gvars, ivars, kvars, wvars, sdry, sunlock, slocked, sacquires,
                   sunlocks, smanifest, shist, scb>>

\* lines 3427-3432 and 2367-2392: releaseLock asserts that opts.unlock is a
\* function, and calls it
self_dropLock ==
    /\ spc = "dropLock"
    /\ IF sdry
       THEN /\ SelfNext("dropLock")
            /\ UNCHANGED <<slocked, sunlocks>>
       ELSE IF ~sunlock
       THEN /\ spc' = "crashed"
            /\ UNCHANGED <<serr, sfin, slocked, sunlocks>>
       ELSE /\ sunlocks' = sunlocks + 1
            /\ \/ /\ slocked' = FALSE
                  /\ SelfNext("dropLock")
               \/ /\ FinishFail("UnlockError")
                  /\ UNCHANGED slocked
    /\ UNCHANGED <<mvars, cvars, xvars, gvars, ivars, kvars, wvars, sdry, sunlock, sacquires, smanifest,
                   shist, scb>>

\* lines 3433-3449
self_updateHist ==
    /\ spc = "updateHist"
    /\ IF ~smanifest
       THEN SelfNext("updateHist") /\ UNCHANGED shist
       ELSE IF serr # "none" /\ ~shist.defined
       THEN /\ spc' = "crashed"
            /\ UNCHANGED <<serr, sfin, shist>>
       ELSE /\ shist' = IF serr # "none" THEN [shist EXCEPT !.error = serr]
                        ELSE shist
            /\ \/ SelfNext("updateHist")
               \/ FinishFail("HistoryError")
    /\ UNCHANGED <<mvars, cvars, xvars, gvars, ivars, kvars, wvars, sdry, sunlock, slocked, sacquires,
                   sunlocks, smanifest, scb>>

\* lines 3450-3459
self_noteCompletion ==
    /\ spc = "noteCompletion"
    /\ SelfNext("noteCompletion")
    /\ UNCHANGED <<mvars, cvars, xvars, gvars, ivars, kvars, wvars, sdry, sunlock, slocked, sacquires,
                   sunlocks, smanifest, shist, scb>>

\* lines 3460-3467
self_done ==
    /\ spc = "done"
    /\ scb' = Append(scb, IF serr # "none" THEN serr ELSE sfin)
    /\ spc' = "returned"
    /\ UNCHANGED <<mvars, cvars, xvars, gvars, ivars, kvars, wvars, sdry, sunlock, slocked, sacquires,
                   sunlocks, smanifest, shist, serr, sfin>>

SelfUpdateNext ==
    \/ self_getLock
    \/ self_setStart
    \/ self_getCurrBuildtime
    \/ self_findLatestSdcAdm
    \/ self_saveChangesToHistory
    \/ self_downloadInstaller
    \/ self_createWrkDir
    \/ self_runInstaller
    \/ self_dropLock
    \/ self_updateHist
    \/ self_noteCompletion
    \/ self_done

(***************************************************************************)
(* genUpdatePlan, lines 2437-3002.                                         *)
(***************************************************************************)
\* largest number of change requests in options.changes
MaxReqs == 3

\* the services SAPI knows (svcFromName), all of type vm, and the image
\* params.image_uuid of each
GenServices == {"imgapi", "rabbitmq"}
SvcType(svc) == "vm"
SvcImage(svc) == "IA"

\* the images of the updates server and their published_at
GenImages == {"IA", "IB"}
PublishedAt(img) == IF img = "IA" THEN 1 ELSE IF img = "IB" THEN 2 ELSE 3
\* the version of an image
VersionOf(img) == IF img = "IA" THEN "master-1" ELSE "master-2"

\* a change request: "" stands for a key that is not given
Req(type, service, server, instance, image) ==
    [type |-> type, service |-> service, server |-> server,
     instance |-> instance, image |-> image, images |-> <<>>]

\* the requests options.changes is made of
GenRequests ==
    {Req("", "imgapi", "", "", ""),
     Req("update-service", "rabbitmq", "", "", ""),
     Req("", "imgapi", "", "", "IB"),
     Req("delete-service", "imgapi", "", "", ""),
     Req("delete-service", "imgapi", "", "", "IB"),
     Req("", "imgapi", "headnode", "", ""),
     Req("update-instance", "", "", "imgapi0", ""),
     Req("delete-service", "", "", "imgapi0", "")}

\* the inventories getInstances can return: every service has no instance,
\* one on the headnode, or two on two images
Layouts == {<<>>, <<"IA">>, <<"IA", "IB">>}

GenInst(svc, j, img) ==
    [service |-> svc, instance |-> <<svc, j>>, image |-> img,
     version |-> VersionOf(img),
     hostname |-> IF j = 1 THEN currHostname ELSE "cn1"]

Inventory(layout) ==
    [j \in 1..Len(layout) |-> GenInst("imgapi", j, layout[j])]
    \o [j \in 1..Len(layout) |-> GenInst("rabbitmq", j, layout[j])]

\* the candidate lists getCandidateImages can return
CandidateLists == {<<>>, <<"IA">>, <<"IB", "IA">>}

GenInit ==
    /\ gpc = "validateChanges"
    /\ \E n \in 0..MaxReqs : greqs \in [1..n -> GenRequests]
    /\ gforceSame \in BOOLEAN
    /\ gforceRabbit \in BOOLEAN
    /\ gjust \in BOOLEAN
    /\ gchanges = greqs
    /\ ginsts = <<>>
    /\ gerr = "none"
    /\ gplan = NoPlan
    /\ gcb = <<>>
    /\ gerrs = <<>>
    /\ gcalls = {}
    \* getInstances is not running
    /\ ipc = "idle"
    /\ iagents = <<>>
    /\ isapiInst = NoAgentInsts
    /\ ivms = <<>>
    /\ ipending = {}
    /\ iinsts = <<>>
    /\ ierrs = {}
    /\ ierr = "none"
    /\ icb = <<>>
    \* getCandidateImages is not running
    /\ kpc = "idle"
    /\ kinuse = <<>>
    /\ klocal = {}
    /\ kupstream = {}
    /\ klook = <<>>
    /\ kcurr = <<>>
    /\ kerrs = {}
    /\ kimgs = <<>>
    /\ kerr = "none"
    /\ kcb = <<>>
    /\ klog = <<>>
    \* waitForManatee is not running on its own
    /\ wpc = "idle"
    /\ wstate = ""
    /\ wobj = NoStatus
    /\ wmode = ""
    /\ wcounter = 0
    /\ wcb = ""
    \* updateManatee is not running
    /\ pc = "idle"
    /\ insts = <<1>>
    /\ hostname = 1
    /\ HA = FALSE
    /\ shard = [r \in RoleSet |-> NoPeer]
    /\ manateeUUID = 0
    /\ scriptIdx = 0
    /\ counter = 0
    /\ polls = 0
    /\ lastHit = FALSE
    /\ sapiUUID = ""
    /\ sapiMeta = FALSE
    /\ sapiMode = "full"
    /\ err = "none"
    /\ log = <<>>
    \* coordinatePlan is not running
    /\ plan = [changes |-> <<>>, curr |-> <<>>, justImages |-> FALSE]
    /\ imgapiMissing = {}
    /\ cpc = "idle"
    /\ changes = <<>>
    /\ procs = <<>>
    /\ cerr = "none"
    /\ summary = <<>>
    /\ returned = <<>>
    /\ cfirst = NoRun
    \* execUpdatePlan is not running
    /\ xpc = "idle"
    /\ xdry = FALSE
    /\ xuuid = FALSE
    /\ xprocs = 0
    /\ xi = 0
    /\ xlog = <<>>
    /\ xhist = NoHist
    /\ xerr = "none"
    /\ xupdated = 0
    /\ xcb = <<>>
    \* selfUpdate is not running
    /\ spc = "idle"
    /\ sdry = FALSE
    /\ sunlock = FALSE
    /\ slocked = FALSE
    /\ sacquires = 0
    /\ sunlocks = 0
    /\ smanifest = FALSE
    /\ shist = NoHist
    /\ serr = "none"
    /\ sfin = "none"
    /\ scb = <<>>

\* the functions of the pipeline of genUpdatePlan, lines 2465-2997
GenSteps ==
    <<"validateChanges", "getServers", "getSvcs", "getInsts",
      "normalizeChanges", "checkForConflictingChanges", "dropNoops",
      "resolveDeps", "disallowRabbitmqUpdates", "ensureVmMinPlatform",
      "minImageBuildDateFromSvcName", "createPlan", "determineProcedures">>

GenAfter(name) ==
    LET i == CHOOSE j \in 1..Len(GenSteps) : GenSteps[j] = name IN
    IF i = Len(GenSteps) THEN "finishUp" ELSE GenSteps[i + 1]

\* next(), next(e), and an exception nobody catches
GenNext(name) == gpc' = GenAfter(name) /\ UNCHANGED gerr
GenFail(e) == gpc' = "finishUp" /\ gerr' = e
GenThrow == gpc' = "crashed" /\ UNCHANGED gerr

\* a step that makes one call that can fail
GenCall(name, e) == GenNext(name) \/ GenFail(e)

\* the keys a change request can have
ReqKeys == {"type", "service", "server", "instance", "image"}

\* an error of validateChanges: what is wrong and with which keys
VErr(kind, fields) == [kind |-> kind, fields |-> fields]

\* lines 2542-2547: validateString (every given value is a string, so that
\* it only fails on a key that is not given)
validateString(ch, key) ==
    IF ch[key] = "" THEN <<VErr("required", {key})>> ELSE <<>>

\* lines 2548-2557: validateKeys
validateKeys(allowed, ch) ==
    LET extraKeys == {k \in ReqKeys : ch[k] # "" /\ k \notin allowed}
    IN IF extraKeys # {} THEN <<VErr("extra", extraKeys)>> ELSE <<>>

\* lines 2494-2500, 2509-2515, 2520-2526
BadType(ch, type) ==
    IF ch.type # "" /\ ch.type # type THEN <<VErr("type", {"type"})>>
    ELSE <<>>

\* lines 2467-2535: the errors validateChanges pushes for a change
ValidationErrors(ch) ==
    IF ch.type = "create"
    THEN validateString(ch, "service") \o validateString(ch, "server")
         \o validateKeys({"type", "server", "service", "image"}, ch)
    ELSE IF ch.type = "delete" /\ ch.service # "" /\ ch.server # ""
    THEN validateKeys({"type", "server", "service", "image"}, ch)
    ELSE IF ch.type = "delete"
    THEN validateString(ch, "instance")
         \o validateKeys({"type", "instance", "image"}, ch)
    ELSE IF ch.type = "delete-service"
    THEN validateString(ch, "service")
         \o validateKeys({"type", "service"}, ch)
    ELSE IF ch.service # "" /\ ch.server # ""
    THEN BadType(ch, "update-instance")
         \o validateKeys({"type", "server", "service", "image"}, ch)
    ELSE IF ch.instance # ""
    THEN BadType(ch, "update-instance")
         \o validateKeys({"type", "instance", "image"}, ch)
    ELSE IF ch.service # ""
    THEN BadType(ch, "update-service")
         \o validateKeys({"type", "service", "image"}, ch)
    ELSE <<VErr("invalid", {})>>

\* the type validateChanges gives a change that has none
Typed(ch) ==
    IF ch.type # "" THEN ch
    ELSE IF ch.service # "" /\ ch.server # ""
    THEN [ch EXCEPT !.type = "update-instance"]
    ELSE IF ch.instance # "" THEN [ch EXCEPT !.type = "update-instance"]
    ELSE IF ch.service # "" THEN [ch EXCEPT !.type = "update-service"]
    ELSE ch

\* the errors of the changes from the i-th on, each with the index of its
\* change
RECURSIVE ErrsFrom(_, _)
ErrsFrom(chs, i) ==
    IF i > Len(chs) THEN <<>>
    ELSE [k \in 1..Len(ValidationErrors(chs[i])) |->
             [change |-> i, kind |-> ValidationErrors(chs[i])[k].kind,
              fields |-> ValidationErrors(chs[i])[k].fields]]
         \o ErrsFrom(chs, i + 1)

\* an error that carries the first of the errors only
Reported_First(errs) ==
    [name |-> IF Len(errs) = 1 THEN "ValidationError" ELSE "MultiError",
     errs |-> <<errs[1]>>]

\* lines 2536-2540: the one error, or a MultiError of all of them
Reported(errs) ==
    [name |-> IF Len(errs) = 1 THEN "ValidationError" ELSE "MultiError",
     errs |-> errs]

\* lines 2465-2560
gen_validateChanges ==
    /\ gpc = "validateChanges"
    /\ gchanges' = [i \in 1..Len(gchanges) |-> Typed(gchanges[i])]
    /\ LET errs == ErrsFrom(gchanges, 1)
       IN IF errs # <<>>
          THEN GenFail(Reported(errs).name) /\ gerrs' = Reported(errs).errs
          ELSE GenNext("validateChanges") /\ UNCHANGED gerrs
    /\ UNCHANGED <<mvars, cvars, xvars, svars, ivars, kvars, wvars, greqs, gforceSame,
                   gforceRabbit, gjust, ginsts, gplan, gcb, gcalls>>

\* lines 2562-2572
gen_getServers ==
    /\ gpc = "getServers"
    /\ gcalls' = gcalls \cup {"cnapi"}
    /\ GenCall("getServers", "CnapiError")
    /\ UNCHANGED <<mvars, cvars, xvars, svars, ivars, kvars, wvars, greqs, gforceSame,
                   gforceRabbit, gjust, gchanges, ginsts, gplan, gcb, gerrs>>

\* lines 2574-2583
gen_getSvcs ==
    /\ gpc = "getSvcs"
    /\ gcalls' = gcalls \cup {"sapi"}
    /\ GenCall("getSvcs", "SapiError")
    /\ UNCHANGED <<mvars, cvars, xvars, svars, ivars, kvars, wvars, greqs, gforceSame,
                   gforceRabbit, gjust, gchanges, ginsts, gplan, gcb, gerrs>>

\* lines 2585-2590
gen_getInsts ==
    /\ gpc = "getInsts"
    /\ gcalls' = gcalls \cup {"getInstances"}
    /\ \/ /\ \E layout \in Layouts : ginsts' = Inventory(layout)
          /\ GenNext("getInsts")
       \/ /\ GenFail("InstancesError")
          /\ ginsts' \in {<<>>, SubSeq(Inventory(<<"IA">>), 1, 1)}
    /\ UNCHANGED <<mvars, cvars, xvars, svars, ivars, kvars, wvars, greqs, gforceSame,
                   gforceRabbit, gjust, gchanges, gplan, gcb, gerrs>>

\* what a lookup of candidate images or of an image gives
Resolved(res, images) == [res |-> res, images |-> images]

\* the answers getCandidateImages can give for a service
CandidateOutcomes ==
    {Resolved("ok", imgs) : imgs \in CandidateLists}
    \cup {Resolved("CandidatesError", <<>>)}

\* lines 2608-2707: what resolveChange hands to nextChange for a change,
\* given the candidates of every service and the images getImage finds
resolveChange(ch, cand, known) ==
    IF ch.service \notin GenServices THEN Resolved("UnknownService", <<>>)
    ELSE IF ch.server # "" /\ ch.server \notin Hostnames
    THEN Resolved("UnknownServer", <<>>)
    ELSE IF ch.image # ""
    THEN IF ch.image \in known THEN Resolved("ok", <<ch.image>>)
         ELSE Resolved("UnknownImage", <<>>)
    ELSE cand[ch.service]

\* lines 2672, 2689: the lookups resolveChange starts for the first n
\* changes
Lookups(chs, n) ==
    {IF chs[i].image # "" THEN "getImage" ELSE "getCandidateImages" :
        i \in {j \in 1..n :
                  /\ chs[j].service \in GenServices
                  /\ chs[j].server = "" \/ chs[j].server \in Hostnames}}

\* the changes resolveChange is called for without an exception
BeforeThrow(chs) ==
    IF \E i \in 1..Len(chs) : chs[i].service = ""
    THEN (CHOOSE i \in 1..Len(chs) :
            /\ chs[i].service = ""
            /\ \A j \in 1..(i - 1) : chs[j].service # "") - 1
    ELSE Len(chs)

\* lines 2597-2710: resolveChange is called for every change in turn and
\* throws at a change without service; forEachParallel hands over the error
\* of the change that failed, or a MultiError
gen_normalizeChanges ==
    /\ gpc = "normalizeChanges"
    /\ gcalls' = gcalls \cup Lookups(gchanges, BeforeThrow(gchanges))
    /\ IF \E i \in 1..Len(gchanges) : gchanges[i].service = ""
       THEN GenThrow /\ UNCHANGED gchanges
       ELSE \E cand \in [GenServices -> CandidateOutcomes],
               known \in {{}, GenImages} :
              LET out == [i \in 1..Len(gchanges) |->
                            resolveChange(gchanges[i], cand, known)]
                  failed == {i \in 1..Len(gchanges) : out[i].res # "ok"}
              IN IF failed = {}
                 THEN /\ gchanges' =
                           [i \in 1..Len(gchanges) |->
                               [gchanges[i] EXCEPT
                                   !.images = out[i].images,
                                   !.image = ""]]
                      /\ GenNext("normalizeChanges")
                 ELSE /\ GenFail(IF Cardinality(failed) > 1
                                 THEN "MultiError"
                                 ELSE out[CHOOSE i \in failed : TRUE].res)
                      /\ UNCHANGED gchanges
    /\ UNCHANGED <<mvars, cvars, xvars, svars, ivars, kvars, wvars, greqs, gforceSame,
                   gforceRabbit, gjust, ginsts, gplan, gcb, gerrs>>

\* line 2733: ch.type.split('-')[1]
TypeTarg(ch) ==
    IF ch.type \in {"update-service", "delete-service"} THEN "service"
    ELSE IF ch.type \in {"update-instance", "create-instance",
                         "delete-instance"} THEN "instance"
    ELSE "undefined"

\* lines 2730-2754: the first loop ends with a conflict, with an exception
\* (the assertion on typeTarg, or ch.instance.instance where ch.instance is
\* undefined), or falls through; the instance of a change whose `instance`
\* is a string is undefined
RECURSIVE FirstLoop(_, _, _, _)
FirstLoop(chs, i, changeFromSvc, changeFromInst) ==
    IF i > Len(chs) THEN "next"
    ELSE IF TypeTarg(chs[i]) = "service"
    THEN IF chs[i].service \in changeFromSvc THEN "ConflictService"
         ELSE FirstLoop(chs, i + 1, changeFromSvc \cup {chs[i].service},
                        changeFromInst)
    ELSE IF TypeTarg(chs[i]) # "instance" THEN "throw"
    ELSE IF chs[i].instance = "" THEN "throw"
    ELSE IF "undefined" \in changeFromInst THEN "ConflictInstance"
    ELSE FirstLoop(chs, i + 1, changeFromSvc,
                   changeFromInst \cup {"undefined"})

\* lines 2755-2768
SecondLoop(chs) ==
    LET changeFromSvc == {chs[i].service : i \in
                            {j \in 1..Len(chs) : TypeTarg(chs[j]) = "service"}}
    IN IF \E i \in 1..Len(chs) : /\ TypeTarg(chs[i]) = "instance"
                                 /\ chs[i].service \in changeFromSvc
       THEN "ConflictServiceInstance" ELSE "next"

\* lines 2718-2770
gen_checkForConflictingChanges ==
    /\ gpc = "checkForConflictingChanges"
    /\ LET first == FirstLoop(gchanges, 1, {}, {})
           res == IF first = "next" THEN SecondLoop(gchanges) ELSE first
       IN IF res = "throw" THEN GenThrow
          ELSE IF res = "next" THEN GenNext("checkForConflictingChanges")
          ELSE GenFail(res)
    /\ UNCHANGED <<mvars, cvars, xvars, svars, ivars, kvars, wvars, greqs, gforceSame,
                   gforceRabbit, gjust, gchanges, ginsts, gplan, gcb,
                   gerrs, gcalls>>

\* lines 2791-2805: the images the instances of the service run, or the
\* image of the service when it has no instance
CurrImgUuids(svc) ==
    LET used == {ginsts[j].image :
                    j \in {k \in 1..Len(ginsts) : ginsts[k].service = svc}}
    IN IF used = {} THEN {SvcImage(svc)} ELSE used

\* a filter that does not look at forceSameImage
Noop_IgnoreForce(ch) ==
    /\ ch.type \in {"update-service", "update-instance"}
    /\ \/ Len(ch.images) = 0
       \/ /\ Cardinality(CurrImgUuids(ch.service)) = 1
          /\ \A k \in 1..Len(ch.images) :
                ch.images[k] \in CurrImgUuids(ch.service)

\* lines 2778-2819: the changes the filter of dropNoops leaves out
Noop(ch) ==
    /\ ch.type \in {"update-service", "update-instance"}
    /\ \/ Len(ch.images) = 0
       \/ /\ ~gforceSame
          /\ Cardinality(CurrImgUuids(ch.service)) = 1
          /\ \A k \in 1..Len(ch.images) :
                ch.images[k] \in CurrImgUuids(ch.service)

\* lines 2776-2823
gen_dropNoops ==
    /\ gpc = "dropNoops"
    /\ gchanges' = SelectSeq(gchanges, LAMBDA ch : ~Noop(ch))
    /\ GenNext("dropNoops")
    /\ UNCHANGED <<mvars, cvars, xvars, svars, ivars, kvars, wvars, greqs, gforceSame,
                   gforceRabbit, gjust, ginsts, gplan, gcb,
                   gerrs, gcalls>>

\* the last candidate, without the sort
Latest_Unsorted(images) == images[Len(images)]

\* lines 2842-2845: the last image after sorting by published_at
Latest(images) ==
    CHOOSE img \in {images[k] : k \in 1..Len(images)} :
        \A k \in 1..Len(images) : PublishedAt(images[k]) <= PublishedAt(img)

\* lines 2833-2850
gen_resolveDeps ==
    /\ gpc = "resolveDeps"
    /\ gchanges' =
          [i \in 1..Len(gchanges) |->
              [gchanges[i] EXCEPT
                  !.image = IF gchanges[i].image = ""
                               /\ Len(gchanges[i].images) > 0
                            THEN Latest(gchanges[i].images)
                            ELSE gchanges[i].image,
                  !.images = <<>>]]
    /\ GenNext("resolveDeps")
    /\ UNCHANGED <<mvars, cvars, xvars, svars, ivars, kvars, wvars, greqs, gforceSame,
                   gforceRabbit, gjust, ginsts, gplan, gcb,
                   gerrs, gcalls>>

\* a guard that does not look at forceRabbitmq
Locked_IgnoreFlag(ch) == ch.service = "rabbitmq"

\* lines 2855-2856: the change the guard refuses
Locked(ch) == ch.service = "rabbitmq" /\ ~gforceRabbit

\* lines 2852-2869
gen_disallowRabbitmqUpdates ==
    /\ gpc = "disallowRabbitmqUpdates"
    /\ IF \E i \in 1..Len(gchanges) : Locked(gchanges[i])
       THEN GenFail("RabbitmqLocked")
       ELSE GenNext("disallowRabbitmqUpdates")
    /\ UNCHANGED <<mvars, cvars, xvars, svars, ivars, kvars, wvars, greqs, gforceSame,
                   gforceRabbit, gjust, gchanges, ginsts, gplan, gcb,
                   gerrs, gcalls>>

\* the loop of ensureVmMinPlatform and of minImageBuildDateFromSvcName: an
\* update-service of a vm service can fail on one of its instances, an
\* update-instance or create-instance throws, unless a change before it
\* has ended the loop
HasInsts(svc) == \E j \in 1..Len(ginsts) : ginsts[j].service = svc

Throws(ch) ==
    SvcType(ch.service) = "vm"
    /\ ch.type \in {"update-instance", "create-instance"}

GateLoop(name, e) ==
    \/ /\ \E i \in 1..Len(gchanges) :
            /\ SvcType(gchanges[i].service) = "vm"
            /\ gchanges[i].type = "update-service"
            /\ HasInsts(gchanges[i].service)
            /\ \A j \in 1..(i - 1) : ~Throws(gchanges[j])
       /\ GenFail(e)
    \/ /\ \E i \in 1..Len(gchanges) : Throws(gchanges[i])
       /\ GenThrow
    \/ /\ \A i \in 1..Len(gchanges) : ~Throws(gchanges[i])
       /\ GenNext(name)

\* lines 2875-2908
gen_ensureVmMinPlatform ==
    /\ gpc = "ensureVmMinPlatform"
    /\ GateLoop("ensureVmMinPlatform", "InsufficientPlatform")
    /\ UNCHANGED <<mvars, cvars, xvars, svars, ivars, kvars, wvars, greqs, gforceSame,
                   gforceRabbit, gjust, gchanges, ginsts, gplan, gcb,
                   gerrs, gcalls>>

\* lines 2914-2953
gen_minImageBuildDateFromSvcName ==
    /\ gpc = "minImageBuildDateFromSvcName"
    /\ GateLoop("minImageBuildDateFromSvcName", "ImageTooOld")
    /\ UNCHANGED <<mvars, cvars, xvars, svars, ivars, kvars, wvars, greqs, gforceSame,
                   gforceRabbit, gjust, gchanges, ginsts, gplan, gcb,
                   gerrs, gcalls>>

\* a plan whose first change is applied to the instances of every service
Targ_EveryService ==
    [j \in 1..Len(ginsts) |->
        IF gchanges = <<>> THEN ginsts[j]
        ELSE [ginsts[j] EXCEPT
                 !.image = gchanges[1].image,
                 !.version = VersionOf(gchanges[1].image)]]

\* lines 2957-2976: a copy of the instances, with the image and the
\* version of the last change on their service
Targ ==
    [j \in 1..Len(ginsts) |->
        LET hits == {i \in 1..Len(gchanges) :
                        gchanges[i].service = ginsts[j].service}
            last == CHOOSE i \in hits : \A k \in hits : k <= i
        IN IF hits = {} THEN ginsts[j]
           ELSE [ginsts[j] EXCEPT
                    !.image = gchanges[last].image,
                    !.version = VersionOf(gchanges[last].image)]]

\* a switch that has a case for every type
Known_Any(ch) == TRUE

\* lines 2960-2975: the cases of `switch (ch.type)` other than default
Known(ch) == ch.type = "update-service"

\* lines 2955-2984
gen_createPlan ==
    /\ gpc = "createPlan"
    /\ IF \E i \in 1..Len(gchanges) : ~Known(gchanges[i])
       THEN GenFail("UnknownChangeType") /\ UNCHANGED gplan
       ELSE /\ gplan' = [defined |-> TRUE, changes |-> gchanges,
                         curr |-> ginsts, targ |-> Targ,
                         justImages |-> gjust, procs |-> <<>>]
            /\ GenNext("createPlan")
    /\ UNCHANGED <<mvars, cvars, xvars, svars, ivars, kvars, wvars, greqs, gforceSame,
                   gforceRabbit, gjust, gchanges, ginsts, gcb,
                   gerrs, gcalls>>

\* lines 2986-2992: coordinatePlan is called with the plan
gen_determineProcedures ==
    /\ gpc = "determineProcedures"
    /\ gpc' = "coordinatePlan"
    /\ plan' = [changes |-> [i \in 1..Len(gplan.changes) |->
                                Change(gplan.changes[i].service,
                                       gplan.changes[i].image)],
                curr |-> gplan.curr,
                justImages |-> gplan.justImages]
    /\ changes' = plan'.changes
    /\ imgapiMissing' \in SUBSET ImagesOf(plan')
    /\ cpc' = "coordImages"
    /\ UNCHANGED <<mvars, xvars, svars, ivars, kvars, wvars, cfirst, procs, cerr, summary, returned,
                   greqs, gforceSame, gforceRabbit, gjust, gchanges, ginsts,
                   gerr, gplan, gcb,
                   gerrs, gcalls>>

\* lines 2993-2996: the callback of coordinatePlan
gen_procsReturned ==
    /\ gpc = "coordinatePlan"
    /\ cpc = "returned"
    /\ gplan' = [gplan EXCEPT !.procs = returned]
    /\ gerr' = cerr
    /\ gpc' = "finishUp"
    /\ UNCHANGED <<mvars, cvars, xvars, svars, ivars, kvars, wvars, greqs, gforceSame,
                   gforceRabbit, gjust, gchanges, ginsts, gcb,
                   gerrs, gcalls>>

\* lines 2999-3001
gen_finishUp ==
    /\ gpc = "finishUp"
    /\ gcb' = Append(gcb, [err |-> gerr, plan |-> gplan])
    /\ gpc' = "returned"
    /\ UNCHANGED <<mvars, cvars, xvars, svars, ivars, kvars, wvars, greqs, gforceSame,
                   gforceRabbit, gjust, gchanges, ginsts, gerr, gplan,
                   gerrs, gcalls>>

GenUpdatePlanNext ==
    \/ gen_validateChanges
    \/ gen_getServers
    \/ gen_getSvcs
    \/ gen_getInsts
    \/ gen_normalizeChanges
    \/ gen_checkForConflictingChanges
    \/ gen_dropNoops
    \/ gen_resolveDeps
    \/ gen_disallowRabbitmqUpdates
    \/ gen_ensureVmMinPlatform
    \/ gen_minImageBuildDateFromSvcName
    \/ gen_createPlan
    \/ gen_determineProcedures
    \/ coordImages
    \/ updateSimpleServices
    \/ updateSingleHeadnodeImgapi
    \/ updateSingleHeadnodeUFDS
    \/ updateMorays
    \/ updateSingleHeadnodeSapi
    \/ updateManatees
    \/ updateBinder
    \/ updateMahi
    \/ done
    \/ gen_procsReturned
    \/ gen_finishUp

(***************************************************************************)
(* getInstances, lines 1118-1272.                                          *)
(***************************************************************************)
\* largest number of core zones vmapi lists
MaxVms == 2

\* largest number of agents in the sysinfo of the servers, and of agent
\* instances sapi lists
MaxAgents == 2

\* the agents of the 'SDC Agents' lists of the servers' sysinfo, in the
\* order servers.forEach and the list of each server give: an agent is
\* listed once on a server
RECURSIVE AgentSeq(_)
AgentSeq(set) ==
    IF set = {} THEN <<>>
    ELSE LET first == CHOOSE a \in set :
                        \A b \in set :
                            \/ a = b
                            \/ a.server = "s1" /\ b.server = "s2"
                            \/ (a.server = b.server /\ a.name = "provisioner")
         IN <<first>> \o AgentSeq(set \ {first})

Sysinfos ==
    {AgentSeq(set) :
        set \in {x \in SUBSET [server : AgentServers, name : AgentNames] :
                    Cardinality(x) <= MaxAgents}}

InstsInit ==
    /\ ipc = "getAgentServices"
    /\ iagents \in Sysinfos
    /\ isapiInst = NoAgentInsts
    /\ ivms = <<>>
    /\ ipending = {}
    /\ iinsts = <<>>
    /\ ierrs = {}
    /\ ierr = "none"
    /\ icb = <<>>
    \* updateManatee is not running
    /\ pc = "idle"
    /\ insts = <<1>>
    /\ hostname = 1
    /\ HA = FALSE
    /\ shard = [r \in RoleSet |-> NoPeer]
    /\ manateeUUID = 0
    /\ scriptIdx = 0
    /\ counter = 0
    /\ polls = 0
    /\ lastHit = FALSE
    /\ sapiUUID = ""
    /\ sapiMeta = FALSE
    /\ sapiMode = "full"
    /\ err = "none"
    /\ log = <<>>
    \* coordinatePlan is not running
    /\ plan = [changes |-> <<>>, curr |-> <<>>, justImages |-> FALSE]
    /\ imgapiMissing = {}
    /\ cpc = "idle"
    /\ changes = <<>>
    /\ procs = <<>>
    /\ cerr = "none"
    /\ summary = <<>>
    /\ returned = <<>>
    /\ cfirst = NoRun
    \* execUpdatePlan is not running
    /\ xpc = "idle"
    /\ xdry = FALSE
    /\ xuuid = FALSE
    /\ xprocs = 0
    /\ xi = 0
    /\ xlog = <<>>
    /\ xhist = NoHist
    /\ xerr = "none"
    /\ xupdated = 0
    /\ xcb = <<>>
    \* selfUpdate is not running
    /\ spc = "idle"
    /\ sdry = FALSE
    /\ sunlock = FALSE
    /\ slocked = FALSE
    /\ sacquires = 0
    /\ sunlocks = 0
    /\ smanifest = FALSE
    /\ shist = NoHist
    /\ serr = "none"
    /\ sfin = "none"
    /\ scb = <<>>
    \* genUpdatePlan is not running
    /\ gpc = "idle"
    /\ greqs = <<>>
    /\ gforceSame = FALSE
    /\ gforceRabbit = FALSE
    /\ gjust = FALSE
    /\ gchanges = <<>>
    /\ ginsts = <<>>
    /\ gerr = "none"
    /\ gplan = NoPlan
    /\ gcb = <<>>
    /\ gerrs = <<>>
    /\ gcalls = {}
    \* getCandidateImages is not running
    /\ kpc = "idle"
    /\ kinuse = <<>>
    /\ klocal = {}
    /\ kupstream = {}
    /\ klook = <<>>
    /\ kcurr = <<>>
    /\ kerrs = {}
    /\ kimgs = <<>>
    /\ kerr = "none"
    /\ kcb = <<>>
    /\ klog = <<>>
    \* waitForManatee is not running on its own
    /\ wpc = "idle"
    /\ wstate = ""
    /\ wobj = NoStatus
    /\ wmode = ""
    /\ wcounter = 0
    /\ wcb = ""

\* the functions of the pipeline of getInstances
InstsSteps ==
    <<"getAgentServices", "getAgentInstances", "getAgentsAndPlatforms",
      "getCoreZones">>

InstsAfter(name) ==
    LET i == CHOOSE j \in 1..Len(InstsSteps) : InstsSteps[j] = name IN
    IF i = Len(InstsSteps) THEN "done" ELSE InstsSteps[i + 1]

\* next() and next(e)
InstsNext(name) == ipc' = InstsAfter(name) /\ UNCHANGED ierr
InstsFail(e) == ipc' = "done" /\ ierr' = e

\* lines 1130-1141: sapi.listServices
inst_getAgentServices ==
    /\ ipc = "getAgentServices"
    /\ InstsNext("getAgentServices") \/ InstsFail("SapiError")
    /\ UNCHANGED <<mvars, cvars, xvars, svars, gvars, kvars, wvars, iagents, isapiInst, ivms,
                   ipending, iinsts, ierrs, icb>>

\* lines 1148-1151: the instances are keyed by the name of their service,
\* so of the instances of one agent the one listed last is kept; the
\* instance listed at place i has the uuid <<"sapi", "", i>>
Registered(listed) ==
    [name \in AgentNames |->
        LET at == {i \in 1..Len(listed) : listed[i] = name} IN
        IF at = {} THEN NoId ELSE <<"sapi", "", MaxOf(at)>>]

\* lines 1142-1154: sapi.listInstances gives the agent instances, each of
\* one of the agent services
inst_getAgentInstances ==
    /\ ipc = "getAgentInstances"
    /\ \/ /\ \E n \in 0..MaxAgents :
                \E listed \in [1..n -> AgentNames] :
                    isapiInst' = Registered(listed)
          /\ InstsNext("getAgentInstances")
       \/ /\ InstsFail("SapiError")
          /\ UNCHANGED isapiInst
    /\ UNCHANGED <<mvars, cvars, xvars, svars, gvars, kvars, wvars, iagents, ivms,
                   ipending, iinsts, ierrs, icb>>

\* lines 1190-1193: the uuid of the instance sapi has for the agent, or
\* server.uuid + '/' + agent.name
instUuid(agent) ==
    IF isapiInst[agent.name] # NoId THEN isapiInst[agent.name]
    ELSE <<agent.server, agent.name, 0>>

\* an instance of an agent (lines 1194-1202) and of a core zone (lines
\* 1236-1247), whose instance is vm.uuid
AgentInst(agent) ==
    [type |-> "agent", instance |-> instUuid(agent), image |-> "none"]
VmInst(v, img) ==
    [type |-> "vm", instance |-> <<"vm", "", v>>, image |-> img]

\* lines 1155-1212: cnapi.listServers, and an instance for every agent of
\* every server
inst_getAgentsAndPlatforms ==
    /\ ipc = "getAgentsAndPlatforms"
    /\ \/ /\ iinsts' = iinsts \o [j \in 1..Len(iagents) |->
                                    AgentInst(iagents[j])]
          /\ InstsNext("getAgentsAndPlatforms")
       \/ /\ InstsFail("CnapiError")
          /\ UNCHANGED iinsts
    /\ UNCHANGED <<mvars, cvars, xvars, svars, gvars, kvars, wvars, iagents, isapiInst, ivms,
                   ipending, ierrs, icb>>

\* lines 1213-1229: vmapi.listVms; forEachParallel starts addOneCoreZone
\* for every zone and calls back at once when there is none
inst_getCoreZones ==
    /\ ipc = "getCoreZones"
    /\ \/ /\ \E n \in 0..MaxVms : ivms' \in [1..n -> GenImages]
          /\ ipending' = 1..Len(ivms')
          /\ ipc' = IF ivms' = <<>> THEN "done" ELSE "addOneCoreZone"
          /\ UNCHANGED ierr
       \/ /\ InstsFail("VmapiError")
          /\ UNCHANGED <<ivms, ipending>>
    /\ UNCHANGED <<mvars, cvars, xvars, svars, gvars, kvars, wvars, iagents, isapiInst, iinsts,
                   ierrs, icb>>

\* the error forEachParallel calls back with
ParallelError(errs) ==
    IF errs = {} THEN "none"
    ELSE IF Cardinality(errs) = 1 THEN "ImgapiError" ELSE "MultiError"

\* lines 1230-1262: the answer of imgapi.getImage for one zone arrives; the
\* callback of forEachParallel runs after the last answer
inst_addOneCoreZone ==
    /\ ipc = "addOneCoreZone"
    /\ \E v \in ipending :
          /\ ipending' = ipending \ {v}
          /\ \/ /\ iinsts' = Append(iinsts, VmInst(v, ivms[v]))
                /\ UNCHANGED ierrs
             \/ /\ ierrs' = ierrs \cup {v}
                /\ UNCHANGED iinsts
    /\ IF ipending' = {}
       THEN ipc' = "done" /\ ierr' = ParallelError(ierrs')
       ELSE UNCHANGED <<ipc, ierr>>
    /\ UNCHANGED <<mvars, cvars, xvars, svars, gvars, kvars, wvars, iagents, isapiInst, ivms,
                   icb>>

\* lines 1269-1271: cb(err, insts)
inst_done ==
    /\ ipc = "done"
    /\ icb' = Append(icb, [err |-> ierr, insts |-> iinsts])
    /\ ipc' = "returned"
    /\ UNCHANGED <<mvars, cvars, xvars, svars, gvars, kvars, wvars, iagents, isapiInst, ivms,
                   ipending, iinsts, ierrs, ierr>>

GetInstancesNext ==
    \/ inst_getAgentServices
    \/ inst_getAgentInstances
    \/ inst_getAgentsAndPlatforms
    \/ inst_getCoreZones
    \/ inst_addOneCoreZone
    \/ inst_done

(***************************************************************************)
(* coordinatePlan called a second time with the same opts.                 *)
(***************************************************************************)
\* the instances a service has in the plans that are run twice
ReplayInstChoices == {<<currHostname>>, <<currHostname, "cn1">>}

ReplayInit ==
    /\ \E k \in 0..MaxChanges :
         \E pick \in Picks(k, 1, Len(PlanServices)), img \in ImageChoices(k),
            ic \in [1..k -> ReplayInstChoices], ji \in BOOLEAN :
              plan = PlanOf(pick, img, ic, ji)
    /\ imgapiMissing \in SUBSET ImagesOf(plan)
    /\ cpc = "coordImages"
    /\ changes = plan.changes
    /\ procs = <<>>
    /\ cerr = "none"
    /\ summary = <<>>
    /\ returned = <<>>
    /\ cfirst = NoRun
    \* updateManatee is not running
    /\ pc = "idle"
    /\ insts = <<1>>
    /\ hostname = 1
    /\ HA = FALSE
    /\ shard = [r \in RoleSet |-> NoPeer]
    /\ manateeUUID = 0
    /\ scriptIdx = 0
    /\ counter = 0
    /\ polls = 0
    /\ lastHit = FALSE
    /\ sapiUUID = ""
    /\ sapiMeta = FALSE
    /\ sapiMode = "full"
    /\ err = "none"
    /\ log = <<>>
    \* execUpdatePlan is not running
    /\ xpc = "idle"
    /\ xdry = FALSE
    /\ xuuid = FALSE
    /\ xprocs = 0
    /\ xi = 0
    /\ xlog = <<>>
    /\ xhist = NoHist
    /\ xerr = "none"
    /\ xupdated = 0
    /\ xcb = <<>>
    \* selfUpdate is not running
    /\ spc = "idle"
    /\ sdry = FALSE
    /\ sunlock = FALSE
    /\ slocked = FALSE
    /\ sacquires = 0
    /\ sunlocks = 0
    /\ smanifest = FALSE
    /\ shist = NoHist
    /\ serr = "none"
    /\ sfin = "none"
    /\ scb = <<>>
    \* genUpdatePlan is not running
    /\ gpc = "idle"
    /\ greqs = <<>>
    /\ gforceSame = FALSE
    /\ gforceRabbit = FALSE
    /\ gjust = FALSE
    /\ gchanges = <<>>
    /\ ginsts = <<>>
    /\ gerr = "none"
    /\ gplan = NoPlan
    /\ gcb = <<>>
    /\ gerrs = <<>>
    /\ gcalls = {}
    \* getInstances is not running
    /\ ipc = "idle"
    /\ iagents = <<>>
    /\ isapiInst = NoAgentInsts
    /\ ivms = <<>>
    /\ ipending = {}
    /\ iinsts = <<>>
    /\ ierrs = {}
    /\ ierr = "none"
    /\ icb = <<>>
    \* getCandidateImages is not running
    /\ kpc = "idle"
    /\ kinuse = <<>>
    /\ klocal = {}
    /\ kupstream = {}
    /\ klook = <<>>
    /\ kcurr = <<>>
    /\ kerrs = {}
    /\ kimgs = <<>>
    /\ kerr = "none"
    /\ kcb = <<>>
    /\ klog = <<>>
    \* waitForManatee is not running on its own
    /\ wpc = "idle"
    /\ wstate = ""
    /\ wobj = NoStatus
    /\ wmode = ""
    /\ wcounter = 0
    /\ wcb = ""

\* lines 79-103: the first call has called back; coordinatePlan is called
\* again with the same plan, and starts from its own copy of plan.changes
\* and an empty procs
replay ==
    /\ cpc = "returned"
    /\ ~cfirst.defined
    /\ cfirst' = [defined |-> TRUE, err |-> cerr, procs |-> returned]
    /\ cpc' = "coordImages"
    /\ changes' = plan.changes
    /\ procs' = <<>>
    /\ cerr' = "none"
    /\ summary' = <<>>
    /\ returned' = <<>>
    /\ UNCHANGED <<mvars, ovars, plan, imgapiMissing>>

ReplayNext ==
    \/ coordImages
    \/ updateSimpleServices
    \/ updateSingleHeadnodeImgapi
    \/ updateSingleHeadnodeUFDS
    \/ updateMorays
    \/ updateSingleHeadnodeSapi
    \/ updateManatees
    \/ updateBinder
    \/ updateMahi
    \/ done
    \/ replay

(***************************************************************************)
(* getImage, lines 1388-1401, and getCandidateImages, lines 2248-2338.     *)
(***************************************************************************)
\* largest number of instances of opts.service in opts.insts
MaxInUse == 2

\* the images of the name of the service, all of a master version
KImages == {"IA", "IB", "IC"}

CandInit ==
    /\ kpc = "getCurrImgs"
    /\ \E n \in 0..MaxInUse : kinuse \in [1..n -> KImages]
    /\ klocal \in SUBSET KImages
    /\ kupstream \in SUBSET KImages
    /\ klook = <<>>
    /\ kcurr = <<>>
    /\ kerrs = {}
    /\ kimgs = <<>>
    /\ kerr = "none"
    /\ kcb = <<>>
    /\ klog = <<>>
    \* waitForManatee is not running on its own
    /\ wpc = "idle"
    /\ wstate = ""
    /\ wobj = NoStatus
    /\ wmode = ""
    /\ wcounter = 0
    /\ wcb = ""
    \* updateManatee is not running
    /\ pc = "idle"
    /\ insts = <<1>>
    /\ hostname = 1
    /\ HA = FALSE
    /\ shard = [r \in RoleSet |-> NoPeer]
    /\ manateeUUID = 0
    /\ scriptIdx = 0
    /\ counter = 0
    /\ polls = 0
    /\ lastHit = FALSE
    /\ sapiUUID = ""
    /\ sapiMeta = FALSE
    /\ sapiMode = "full"
    /\ err = "none"
    /\ log = <<>>
    \* coordinatePlan is not running
    /\ plan = [changes |-> <<>>, curr |-> <<>>, justImages |-> FALSE]
    /\ imgapiMissing = {}
    /\ cpc = "idle"
    /\ changes = <<>>
    /\ procs = <<>>
    /\ cerr = "none"
    /\ summary = <<>>
    /\ returned = <<>>
    /\ cfirst = NoRun
    \* execUpdatePlan is not running
    /\ xpc = "idle"
    /\ xdry = FALSE
    /\ xuuid = FALSE
    /\ xprocs = 0
    /\ xi = 0
    /\ xlog = <<>>
    /\ xhist = NoHist
    /\ xerr = "none"
    /\ xupdated = 0
    /\ xcb = <<>>
    \* selfUpdate is not running
    /\ spc = "idle"
    /\ sdry = FALSE
    /\ sunlock = FALSE
    /\ slocked = FALSE
    /\ sacquires = 0
    /\ sunlocks = 0
    /\ smanifest = FALSE
    /\ shist = NoHist
    /\ serr = "none"
    /\ sfin = "none"
    /\ scb = <<>>
    \* genUpdatePlan is not running
    /\ gpc = "idle"
    /\ greqs = <<>>
    /\ gforceSame = FALSE
    /\ gforceRabbit = FALSE
    /\ gjust = FALSE
    /\ gchanges = <<>>
    /\ ginsts = <<>>
    /\ gerr = "none"
    /\ gplan = NoPlan
    /\ gcb = <<>>
    /\ gerrs = <<>>
    /\ gcalls = {}
    \* getInstances is not running
    /\ ipc = "idle"
    /\ iagents = <<>>
    /\ isapiInst = NoAgentInsts
    /\ ivms = <<>>
    /\ ipending = {}
    /\ iinsts = <<>>
    /\ ierrs = {}
    /\ ierr = "none"
    /\ icb = <<>>

\* lines 2259-2272: the keys of currImgUuids, or the image of the service
currImgUuids ==
    IF kinuse = <<>> THEN <<SvcImage("imgapi")>> ELSE Distinct(kinuse)

\* a call of getImage: the store it waits for, the answer of the local
\* imgapi and what its cb got
Lookup(uuid, at, local, res) ==
    [uuid |-> uuid, at |-> at, local |-> local, res |-> res]

Call(store, uuid) == [store |-> store, uuid |-> uuid]

\* lines 2259-2278: forEachParallel calls getImage for every uuid, and
\* getImage (lines 1394) asks the local imgapi
cand_getCurrImgs ==
    /\ kpc = "getCurrImgs"
    /\ klook' = [i \in 1..Len(currImgUuids) |->
                    Lookup(currImgUuids[i], "imgapi", "pending", "pending")]
    /\ klog' = [i \in 1..Len(currImgUuids) |->
                    Call("imgapi", currImgUuids[i])]
    /\ kpc' = "getImg"
    /\ UNCHANGED <<mvars, cvars, xvars, svars, gvars, ivars, wvars, kinuse, klocal,
                   kupstream, kcurr, kerrs, kimgs, kerr, kcb>>

\* lines 2279-2296: the callback getImg gives to getImage, and the callback
\* of forEachParallel after the last of them
getImgDone(i, res) ==
    /\ kcurr' = IF res = "hit" THEN Append(kcurr, klook[i].uuid) ELSE kcurr
    /\ kerrs' = IF res \notin {"hit", "ResourceNotFound"}
                THEN kerrs \cup {i} ELSE kerrs
    /\ IF \A j \in 1..Len(klook) : j # i => klook[j].at = "done"
       THEN IF kerrs' = {} THEN kpc' = "getCandidates" /\ UNCHANGED kerr
            ELSE kpc' = "done" /\ kerr' = ParallelError(kerrs')
       ELSE UNCHANGED <<kpc, kerr>>

\* every error of the local imgapi is taken as ResourceNotFound
NotFoundLocally_AnyError(answer) == answer # "hit"

\* line 1395: iErr && iErr.body && iErr.body.code === 'ResourceNotFound'
NotFoundLocally(answer) == answer = "ResourceNotFound"

\* the answers of a store for an image: the image or ResourceNotFound, as
\* the store holds it or not, or an error with another code, or one
\* without a body
Answers(store, uuid) ==
    {IF uuid \in store THEN "hit" ELSE "ResourceNotFound",
     "InternalError", "ConnectError"}

\* lines 1394-1400: the local imgapi answers
getImage_imgapi ==
    /\ kpc = "getImg"
    /\ \E i \in 1..Len(klook) :
          /\ klook[i].at = "imgapi"
          /\ \E answer \in Answers(klocal, klook[i].uuid) :
                IF NotFoundLocally(answer)
                THEN /\ klook' = [klook EXCEPT ![i].at = "updates",
                                               ![i].local = answer]
                     /\ klog' = Append(klog, Call("updates", klook[i].uuid))
                     /\ UNCHANGED <<kpc, kcurr, kerrs, kerr>>
                ELSE /\ klook' = [klook EXCEPT ![i].at = "done",
                                               ![i].local = answer,
                                               ![i].res = answer]
                     /\ getImgDone(i, answer)
                     /\ UNCHANGED klog
    /\ UNCHANGED <<mvars, cvars, xvars, svars, gvars, ivars, wvars, kinuse, klocal,
                   kupstream, kimgs, kcb>>

\* line 1396: the updates server answers, and cb gets its answer
getImage_updates ==
    /\ kpc = "getImg"
    /\ \E i \in 1..Len(klook) :
          /\ klook[i].at = "updates"
          /\ \E answer \in Answers(kupstream, klook[i].uuid) :
                /\ klook' = [klook EXCEPT ![i].at = "done",
                                          ![i].res = answer]
                /\ getImgDone(i, answer)
    /\ UNCHANGED <<mvars, cvars, xvars, svars, gvars, ivars, wvars, kinuse, klocal,
                   kupstream, kimgs, kcb, klog>>

\* line 2309: currImgs sorted by published_at
RECURSIVE SortByPublishedAt(_)
SortByPublishedAt(set) ==
    IF set = {} THEN <<>>
    ELSE LET first == CHOOSE x \in set :
                        \A y \in set : PublishedAt(x) <= PublishedAt(y)
         IN <<first>> \o SortByPublishedAt(set \ {first})

\* lines 2310-2317: the images the updates server lists for the filter:
\* those of the name published after the marker, all of them without one
listImages(marker) ==
    SortByPublishedAt({img \in kupstream :
        marker # "undefined" => PublishedAt(img) > PublishedAt(marker)})

\* lines 2298-2333
cand_getCandidates ==
    /\ kpc = "getCandidates"
    /\ LET sorted == SortByPublishedAt({kcurr[i] : i \in 1..Len(kcurr)})
           marker == IF Len(sorted) > 0 THEN sorted[1] ELSE "undefined"
       IN /\ kcurr' = sorted
          /\ \/ /\ kimgs' = (IF Len(sorted) > 0 THEN <<sorted[1]>>
                             ELSE <<>>) \o listImages(marker)
                /\ UNCHANGED kerr
             \/ /\ kerr' = "UpdatesError"
                /\ UNCHANGED kimgs
    /\ kpc' = "done"
    /\ UNCHANGED <<mvars, cvars, xvars, svars, gvars, ivars, wvars, kinuse, klocal,
                   kupstream, klook, kerrs, kcb, klog>>

\* lines 2335-2337: cb(err, imgs)
cand_done ==
    /\ kpc = "done"
    /\ kcb' = Append(kcb, [err |-> kerr, imgs |-> kimgs])
    /\ kpc' = "returned"
    /\ UNCHANGED <<mvars, cvars, xvars, svars, gvars, ivars, wvars, kinuse, klocal,
                   kupstream, klook, kcurr, kerrs, kimgs, kerr, klog>>

GetCandidateImagesNext ==
    \/ cand_getCurrImgs
    \/ getImage_imgapi
    \/ getImage_updates
    \/ cand_getCandidates
    \/ cand_done

(***************************************************************************)
(* waitForManatee on its own, lines 192-246, with the status each call of  *)
(* getShardStatus gives kept in the state.                                 *)
(***************************************************************************)
\* lines 517-524, 562-569, 580-587, 628-635, 778-785: the states waited for
WaitedStates == {"sync", "async"}

WaitInit ==
    /\ wpc = "waitForManatee"
    /\ wstate \in WaitedStates
    /\ wobj = NoStatus
    /\ wmode = ""
    /\ wcounter = 0
    /\ wcb = ""
    \* updateManatee is not running
    /\ pc = "idle"
    /\ insts = <<1>>
    /\ hostname = 1
    /\ HA = FALSE
    /\ shard = [r \in RoleSet |-> NoPeer]
    /\ manateeUUID = 0
    /\ scriptIdx = 0
    /\ counter = 0
    /\ polls = 0
    /\ lastHit = FALSE
    /\ sapiUUID = ""
    /\ sapiMeta = FALSE
    /\ sapiMode = "full"
    /\ err = "none"
    /\ log = <<>>
    \* coordinatePlan is not running
    /\ plan = [changes |-> <<>>, curr |-> <<>>, justImages |-> FALSE]
    /\ imgapiMissing = {}
    /\ cpc = "idle"
    /\ changes = <<>>
    /\ procs = <<>>
    /\ cerr = "none"
    /\ summary = <<>>
    /\ returned = <<>>
    /\ cfirst = NoRun
    \* execUpdatePlan is not running
    /\ xpc = "idle"
    /\ xdry = FALSE
    /\ xuuid = FALSE
    /\ xprocs = 0
    /\ xi = 0
    /\ xlog = <<>>
    /\ xhist = NoHist
    /\ xerr = "none"
    /\ xupdated = 0
    /\ xcb = <<>>
    \* selfUpdate is not running
    /\ spc = "idle"
    /\ sdry = FALSE
    /\ sunlock = FALSE
    /\ slocked = FALSE
    /\ sacquires = 0
    /\ sunlocks = 0
    /\ smanifest = FALSE
    /\ shist = NoHist
    /\ serr = "none"
    /\ sfin = "none"
    /\ scb = <<>>
    \* genUpdatePlan is not running
    /\ gpc = "idle"
    /\ greqs = <<>>
    /\ gforceSame = FALSE
    /\ gforceRabbit = FALSE
    /\ gjust = FALSE
    /\ gchanges = <<>>
    /\ ginsts = <<>>
    /\ gerr = "none"
    /\ gplan = NoPlan
    /\ gcb = <<>>
    /\ gerrs = <<>>
    /\ gcalls = {}
    \* getInstances is not running
    /\ ipc = "idle"
    /\ iagents = <<>>
    /\ isapiInst = NoAgentInsts
    /\ ivms = <<>>
    /\ ipending = {}
    /\ iinsts = <<>>
    /\ ierrs = {}
    /\ ierr = "none"
    /\ icb = <<>>
    \* getCandidateImages is not running
    /\ kpc = "idle"
    /\ kinuse = <<>>
    /\ klocal = {}
    /\ kupstream = {}
    /\ klook = <<>>
    /\ kcurr = <<>>
    /\ kerrs = {}
    /\ kimgs = <<>>
    /\ kerr = "none"
    /\ kcb = <<>>
    /\ klog = <<>>

\* lines 192-194, 245: the counter starts at 0 and _waitForStatus is called
wait_waitForManatee ==
    /\ wpc = "waitForManatee"
    /\ wcounter' = 0
    /\ wpc' = "_waitForStatus"
    /\ UNCHANGED <<mvars, cvars, xvars, svars, gvars, ivars, kvars, wstate,
                   wobj, wmode, wcb>>

\* lines 195-244: one call of getShardStatus and what its callback does;
\* obj and mode are locals of the callback, which a retry starts without
wait_waitForStatus ==
    /\ wpc = "_waitForStatus"
    /\ wcounter' = wcounter + 1
    /\ \/ /\ wcb' = "getShardStatus"
          /\ wpc' = "done"
          /\ UNCHANGED <<wobj, wmode>>
       \/ \E obj \in Statuses :
            IF Matches(Mode(obj), wstate)
            THEN /\ wobj' = obj
                 /\ wmode' = Mode(obj)
                 /\ wcb' = "null"
                 /\ wpc' = "done"
            ELSE IF MayRetry(wcounter + 1)
            THEN UNCHANGED <<wobj, wmode, wcb, wpc>>
            ELSE /\ wobj' = obj
                 /\ wmode' = Mode(obj)
                 /\ wcb' = "Timeout (15m) waiting for manatee"
                 /\ wpc' = "done"
    /\ UNCHANGED <<mvars, cvars, xvars, svars, gvars, ivars, kvars, wstate>>

WaitForManateeNext ==
    \/ wait_waitForManatee
    \/ wait_waitForStatus

SpecManatee == ManateeInit /\ [][ManateeNext]_vars

SpecCoord == CoordInit /\ [][CoordNext]_vars

SpecExec == ExecInit /\ [][ExecUpdatePlanNext]_vars

SpecSelfUpdate == SelfInit /\ [][SelfUpdateNext]_vars

SpecGen == GenInit /\ [][GenUpdatePlanNext]_vars

SpecInsts == InstsInit /\ [][GetInstancesNext]_vars

SpecReplay == ReplayInit /\ [][ReplayNext]_vars

SpecImages == CandInit /\ [][GetCandidateImagesNext]_vars

SpecWait == WaitInit /\ [][WaitForManateeNext]_vars

TypeOK ==
    /\ pc \in {"idle", "updateManatee", "done", "failed", "crashed"}
              \cup {Steps[i] : i \in 1..Len(Steps)}
    /\ counter \in 0..ManateeLimit
    /\ polls \in 0..ManateeLimit

(***************************************************************************)
(* Reading the log.                                                        *)
(***************************************************************************)
IsTouch(e) == e.op \in {"disable", "reprovision"}
TouchIdx == {i \in 1..Len(log) : IsTouch(log[i])}
Touches == SelectSeq(log, IsTouch)

\* the touches of a complete HA run: async, then sync, then primary
ExpectedTouches ==
    <<[op |-> "disable", zone |-> shard.async.zoneId],
      [op |-> "reprovision", zone |-> shard.async.zoneId],
      [op |-> "disable", zone |-> shard.sync.zoneId],
      [op |-> "reprovision", zone |-> shard.sync.zoneId],
      [op |-> "disable", zone |-> shard.primary.zoneId],
      [op |-> "reprovision", zone |-> shard.primary.zoneId]>>

IsPrefix(a, b) ==
    /\ Len(a) <= Len(b)
    /\ \A i \in 1..Len(a) : a[i] = b[i]

\* a status poll between log positions i and j that returned mode m
WaitBetween(i, j, m) ==
    \E k \in (i+1)..(j-1) :
        log[k].op = "wait" /\ log[k].res = "ok" /\ log[k].mode = m

RemoteOps == {"install", "disable", "wait", "reprovision", "promotion"}
IsRemote(e) == e.op \in RemoteOps
Act(op, who, mode) == [op |-> op, who |-> who, mode |-> mode]
ActOf(e) ==
    Act(e.op,
        IF e.op = "install" THEN e.server
        ELSE IF e.op = "wait" THEN 0 ELSE e.zone,
        e.mode)
Actions ==
    LET r == SelectSeq(log, IsRemote) IN [i \in 1..Len(r) |-> ActOf(r[i])]

ThreeOnThree ==
    /\ NumInsts = 3
    /\ insts[1] # insts[2] /\ insts[1] # insts[3] /\ insts[2] # insts[3]

P == shard.primary
S == shard.sync
A == shard.async

\* the sequence of section 8, seed case 5
ClaimedActions ==
    <<Act("install", A.server_uuid, ""), Act("disable", A.zoneId, ""),
      Act("wait", 0, "sync"), Act("reprovision", A.zoneId, ""),
      Act("wait", 0, "async"), Act("disable", S.zoneId, ""),
      Act("wait", 0, "sync"), Act("install", S.server_uuid, ""),
      Act("reprovision", S.zoneId, ""), Act("wait", 0, "async"),
      Act("disable", P.zoneId, ""), Act("promotion", A.zoneId, "promoted"),
      Act("reprovision", P.zoneId, ""), Act("wait", 0, "async")>>

\* the sequence of the pipeline
PipelineActions ==
    <<Act("install", P.server_uuid, ""), Act("disable", A.zoneId, ""),
      Act("wait", 0, "sync"), Act("install", A.server_uuid, ""),
      Act("reprovision", A.zoneId, ""), Act("wait", 0, "async"),
      Act("disable", S.zoneId, ""), Act("wait", 0, "sync"),
      Act("install", S.server_uuid, ""), Act("reprovision", S.zoneId, ""),
      Act("wait", 0, "async"), Act("disable", P.zoneId, ""),
      Act("promotion", A.zoneId, "promoted"),
      Act("reprovision", P.zoneId, ""),
      Act("wait", 0, "async")>>

C3_PromotionBounded ==
    (HA /\ pc = "waitForShardPromotion") => polls < PromotionLimit

\* C4 as stated: the wait for PostgreSQL makes at most 36 polls, so a wait
\* that is still going on has made fewer than 36.
C4_PostgresBounded ==
    (~HA /\ pc = "waitForPrimaryPG") => polls < PostgresLimit

ManateeWaits == {"waitForAsyncDisabled", "waitForHA", "waitForSyncDisabled",
                 "waitForHASync", "waitForShardHA"}

\* C5: a waitForManatee that is still going on has made fewer than 180
\* polls, none of which showed the awaited mode; it succeeds only on a poll
\* that shows the awaited mode and it times out on the 180th poll that does
\* not.
C5_WaitBounded ==
    /\ pc \in ManateeWaits => polls < ManateeLimit /\ ~lastHit
    /\ \A i \in 1..Len(log) :
        log[i].op = "wait" =>
          /\ log[i].res = "ok" => log[i].mode = log[i].want
          /\ log[i].res = "timeout" =>
                /\ log[i].mode # log[i].want
                /\ i = Len(log)
                /\ pc = "failed"
                /\ polls = ManateeLimit

C5_Witness ==
    /\ Len(log) > 0
    /\ log[Len(log)].op = "wait"
    /\ log[Len(log)].res = "timeout"
    /\ polls = ManateeLimit

\* C6 as stated: once the pipeline has ended with 'HA setup error', no
\* later function of the pipeline runs.
C6_HASetupErrorHalts ==
    [][err = "HA setup error" => UNCHANGED <<pc, polls, log>>]_vars

NoHAOps == {"installLocal", "getLocalSapi", "setSapiProtoMode",
            "restartSapi", "reprovision", "sleep", "postgresUp", "setMode"}
IsNoHAOp(e) == e.op \in NoHAOps
NoHASeq == <<"installLocal", "getLocalSapi", "setSapiProtoMode",
             "restartSapi", "reprovision", "sleep", "postgresUp", "setMode">>
NoHALog == SelectSeq(log, IsNoHAOp)

C8_PrimaryAfterPromotion ==
    HA =>
      /\ \A i \in 1..Len(log) :
            (log[i].op = "reprovision" /\ log[i].zone = P.zoneId) =>
              \E j, k \in 1..i :
                /\ j < k /\ k < i
                /\ log[j].op = "disable" /\ log[j].zone = P.zoneId
                /\ log[j].res = "ok"
                /\ log[k].op = "promotion" /\ log[k].res = "ok"
                /\ log[k].zone = A.zoneId
                /\ log[k].mode = "promoted"
      /\ pc = "done" =>
            /\ log[Len(log)].op = "wait" /\ log[Len(log)].res = "ok"
            /\ log[Len(log)].mode = "async"
            /\ log[Len(log)].zone = A.zoneId

C8_Witness ==
    /\ HA /\ pc = "done"
    /\ \E i \in 1..Len(log) :
        log[i].op = "reprovision" /\ log[i].zone = P.zoneId

\* C9 as stated: after a successful run every instance bound to the change
\* has been reprovisioned with the target image exactly once.
C9_AllReprovisionedOnce ==
    pc = "done" =>
      \A z \in Zones :
        Cardinality({i \in 1..Len(log) :
                        /\ log[i].op = "reprovision" /\ log[i].zone = z
                        /\ log[i].res = "ok"
                        /\ log[i].img = TargetImage}) = 1

ClassOrder ==
    <<"DownloadImages", "UpdateStatelessServicesV1",
      "UpdateSingleHeadnodeImgapi", "UpdateUFDSServiceV1", "UpdateMorayV2",
      "UpdateSingleHNSapiV1", "UpdateManateeV2", "UpdateBinderV1",
      "UpdateMahiV1">>

ClassRank(class) == CHOOSE i \in 1..Len(ClassOrder) : ClassOrder[i] = class

InFilterOrder(list) ==
    \A i, j \in 1..Len(list) :
        i < j => ClassRank(list[i].class) < ClassRank(list[j].class)

\* C10: the procedures coordinatePlan has emitted, and those it returns,
\* are in the order of the filters, one procedure per class at most.
C10_FilterOrder == InFilterOrder(procs) /\ InFilterOrder(returned)

\* a returned list with the image download and two update procedures
C10_Witness == cpc = "returned" /\ cerr = "none" /\ Len(returned) = 3

\* the services of a sequence of changes
ServicesOf(chs) == {chs[i].service : i \in 1..Len(chs)}

\* the filters have all run: the image lookup did not end the pipeline
FiltersRan == cpc = "returned" /\ cerr # "SDCClientError"

\* C11: once every filter has run, coordinatePlan gives an UpdateError
\* exactly when changes are left over; the error lists exactly the changes
\* left over, and a procedure list is returned only without an error.
C11_UnsupportedChanges ==
    /\ FiltersRan => (cerr = "UpdateError" <=> Len(changes) > 0)
    /\ cerr = "UpdateError" =>
          /\ cpc = "returned"
          /\ summary = Summarize(changes)
          /\ Len(summary) = Len(changes)
          /\ returned = <<>>
    /\ cerr = "none" => summary = <<>>

\* an UpdateError that lists two changes
C11_Witness ==
    FiltersRan /\ cerr = "UpdateError" /\ Len(summary) = 2 /\ Len(procs) > 0

\* the changes of the plan a filter with a skip case matches and skips
SkipServices ==
    simpleServices \cup {"imgapi", "ufds", "sapi", "binder", "mahi"}

Skipped(ch) ==
    /\ ch.service \in SkipServices
    /\ \/ Len(instsFromSvcName(ch.service)) > 1
       \/ /\ Len(instsFromSvcName(ch.service)) = 1
          /\ instsFromSvcName(ch.service)[1].hostname # currHostname
       \/ /\ Len(instsFromSvcName(ch.service)) = 0
          /\ ch.service \notin simpleServices

\* C12 as stated: every change a filter skipped is listed by the
\* UpdateError coordinatePlan ends with.
C12_SkippedIsReported ==
    FiltersRan =>
      \A i \in 1..Len(plan.changes) :
        Skipped(plan.changes[i]) =>
            /\ cerr = "UpdateError"
            /\ plan.changes[i].service \in ServicesOf(summary)

\* the procedures that update services
UpdateProcs(ps) == SelectSeq(ps, LAMBDA proc : proc.class # "DownloadImages")

\* how many of the procedures a service's change is bound to
BoundTo(svc, ps) ==
    Cardinality({<<i, j>> \in (1..Len(ps)) \X (1..MaxChanges) :
                    /\ j <= Len(ps[i].changes)
                    /\ ps[i].changes[j].service = svc})

\* C13 as stated: a list returned for a plan without justImages binds every
\* change of the plan to exactly one update procedure.
C13_FullPlanHandled ==
    (cpc = "returned" /\ cerr = "none" /\ ~plan.justImages) =>
      \A i \in 1..Len(plan.changes) :
        BoundTo(plan.changes[i].service, UpdateProcs(returned)) = 1

\* C14: a list returned for a plan with justImages holds nothing but the
\* DownloadImages procedure, and nothing at all when no image is missing
\* from the local store.
C14_JustImages ==
    (cpc = "returned" /\ cerr = "none" /\ plan.justImages) =>
      /\ \A i \in 1..Len(returned) : returned[i].class = "DownloadImages"
      /\ Len(returned) <= 1
      /\ (ImagesOf(plan) \cap imgapiMissing = {}) <=> returned = <<>>

\* justImages with a change that a filter handled and an image to fetch
C14_Witness ==
    /\ cpc = "returned" /\ cerr = "none" /\ plan.justImages
    /\ Len(plan.changes) > 0
    /\ Len(returned) = 1

\* justImages with handled changes and every image in the local store
C14_WitnessEmpty ==
    /\ cpc = "returned" /\ cerr = "none" /\ plan.justImages
    /\ Len(plan.changes) > 0
    /\ returned = <<>>

\* C15: the procedures of plan.procs start in list order, each after the
\* callback without error of the one before it, and nothing starts after a
\* callback with an error.
C15_ProcsInSequence ==
    \A p \in 1..Len(xlog) :
        /\ xlog[p].ev = "start" =>
              IF p = 1 THEN xlog[p].i = 1
              ELSE xlog[p-1].ev = "ok" /\ xlog[p-1].i = xlog[p].i - 1
        /\ xlog[p].ev # "start" =>
              p > 1 /\ xlog[p-1].ev = "start" /\ xlog[p-1].i = xlog[p].i
        /\ xlog[p].ev = "err" => p = Len(xlog)
        /\ xlog[p].i <= xprocs

\* the second of three procedures failed and the third never started
C15_Witness ==
    /\ xpc = "returned" /\ xprocs = 3
    /\ Len(xlog) = 4 /\ xlog[4] = XEv("err", 2)

\* C16 as stated: when execUpdatePlan has failed at any stage, the history
\* record carries the error, updateHistory was called and cb got that
\* error once.
C16_ErrorInHistory ==
    (xpc \in {"returned", "crashed"} /\ xerr # "none") =>
        /\ xhist.defined
        /\ xhist.error = xerr
        /\ xupdated = 1
        /\ xcb = <<xerr>>

\* C17: a selfUpdate that acquired the lock calls its unlock function
\* exactly once, before cb is invoked, whether the pipeline succeeded or
\* failed, and the lock is free at the callback unless unlock itself
\* failed; a dry run neither acquires nor releases the lock.
C17_LockReleasedOnce ==
    /\ sunlocks <= 1 /\ Len(scb) <= 1
    /\ sdry => (sacquires = 0 /\ sunlocks = 0 /\ ~slocked)
    /\ (sunlock /\ (scb # <<>> \/ spc \in {"returned", "crashed"})) =>
          sunlocks = 1
    /\ (scb # <<>> /\ sfin # "UnlockError") => ~slocked
    /\ ~sunlock => (~slocked /\ sunlocks = 0)

\* the installer failed, the lock was released and cb got the error
C17_Witness ==
    /\ spc = "returned" /\ scb = <<"InstallerError">>
    /\ sunlock /\ sunlocks = 1 /\ ~slocked

\* the errors of the steps before checkForConflictingChanges: a malformed
\* request or a lookup that failed
EarlyErrors ==
    {"ValidationError", "MultiError", "CnapiError", "SapiError",
     "InstancesError", "UnknownService", "UnknownServer", "UnknownImage",
     "CandidatesError"}

\* service-level and instance-level requests, and the service they are about
ServiceLevel(req) ==
    Typed(req).type \in {"update-service", "delete-service"}

InstanceLevel(req) == Typed(req).type = "update-instance"

ServiceOfReq(req) ==
    IF req.service # "" THEN req.service
    ELSE IF req.instance = "imgapi0" THEN "imgapi" ELSE ""

HasDupService ==
    \E i, j \in 1..Len(greqs) :
        /\ i < j
        /\ ServiceLevel(greqs[i]) /\ ServiceLevel(greqs[j])
        /\ greqs[i].service = greqs[j].service

HasServiceAndInstance ==
    \E i, j \in 1..Len(greqs) :
        /\ ServiceLevel(greqs[i]) /\ InstanceLevel(greqs[j])
        /\ greqs[i].service = ServiceOfReq(greqs[j])

GenEnded == gpc \in {"returned", "crashed"}

\* C18 as stated: a change list with two service-level changes on one
\* service never gives a plan and, unless a lookup failed first, ends with
\* the conflict UpdateError; no plan has two changes on one service.
C18_DuplicateServiceRejected ==
    /\ HasDupService => ~gplan.defined
    /\ (HasDupService /\ GenEnded /\ gerr \notin EarlyErrors) =>
          (gpc = "returned" /\ gerr = "ConflictService")
    /\ \A i, j \in 1..Len(gplan.changes) :
          i # j => gplan.changes[i].service # gplan.changes[j].service

\* C19 as stated: a service-level change together with an instance-level
\* change on an instance of the same service ends, unless a lookup failed
\* first, with the UpdateError on the service and its instance.
C19_ServiceInstanceConflict ==
    (HasServiceAndInstance /\ ~HasDupService /\ GenEnded
        /\ gerr \notin EarlyErrors) =>
          (gpc = "returned" /\ gerr = "ConflictServiceInstance")

\* the images the instances of a service run, or the image of the service
RunImages(svc) ==
    IF \E j \in 1..Len(ginsts) : ginsts[j].service = svc
    THEN {ginsts[j].image :
            j \in {k \in 1..Len(ginsts) : ginsts[k].service = svc}}
    ELSE {SvcImage(svc)}

ShouldDrop(ch) ==
    \/ ch.images = <<>>
    \/ /\ ~gforceSame
       /\ \E img \in RunImages(ch.service) :
            /\ RunImages(ch.service) = {img}
            /\ \A k \in 1..Len(ch.images) : ch.images[k] = img

\* C20: dropNoops leaves out an update-service change exactly when it has
\* no candidate image, or forceSameImage is off and every candidate is the
\* one image its service runs; when no change is left the plan has no
\* changes and no procedures.
C20_DropNoops ==
    /\ [][gpc = "dropNoops" =>
            \A i \in 1..Len(gchanges) :
                gchanges[i].type = "update-service" =>
                    ((\E k \in 1..Len(gchanges') :
                        gchanges'[k].service = gchanges[i].service)
                     <=> ~ShouldDrop(gchanges[i]))]_vars
    /\ []((gpc = "returned" /\ gchanges = <<>> /\ gerr \notin EarlyErrors)
            => /\ gerr = "none"
               /\ gplan.defined
               /\ gplan.changes = <<>>
               /\ gplan.procs = <<>>)

\* a request whose only change was dropped as an update to the same image
C20_Witness ==
    /\ gpc = "returned" /\ gerr = "none"
    /\ Len(greqs) > 0 /\ ~gforceSame
    /\ gplan.defined /\ gplan.changes = <<>> /\ gplan.procs = <<>>

\* the errors of checkForConflictingChanges
ConflictErrors ==
    {"ConflictService", "ConflictInstance", "ConflictServiceInstance"}

\* the steps that follow disallowRabbitmqUpdates when it lets the changes
\* through
AfterRabbitmqGuard ==
    {"ensureVmMinPlatform", "minImageBuildDateFromSvcName", "createPlan",
     "determineProcedures", "coordinatePlan"}

OnRabbitmq(chs) == \E i \in 1..Len(chs) : chs[i].service = "rabbitmq"

RabbitmqReq == Req("update-service", "rabbitmq", "", "", "")

\* C21 as stated: a request to update the service rabbitmq without
\* forceRabbitmq ends, unless a lookup failed first, with the UpdateError
\* of the rabbitmq lock.
C21_Original ==
    (greqs = <<RabbitmqReq>> /\ ~gforceRabbit /\ GenEnded
        /\ gerr \notin EarlyErrors) =>
          (gpc = "returned" /\ gerr = "RabbitmqLocked")

\* C21: without forceRabbitmq a change on rabbitmq that dropNoops has kept
\* ends genUpdatePlan with the UpdateError of the rabbitmq lock, so that no
\* step after the guard and no plan sees a change on rabbitmq; with
\* forceRabbitmq the guard never gives that error.
C21_RabbitmqLocked ==
    /\ (gpc \in AfterRabbitmqGuard /\ ~gforceRabbit) => ~OnRabbitmq(gchanges)
    /\ (gpc \in {"finishUp", "returned"} /\ ~gforceRabbit
          /\ gerr \notin (EarlyErrors \cup ConflictErrors)
          /\ OnRabbitmq(gchanges)) => gerr = "RabbitmqLocked"
    /\ gerr = "RabbitmqLocked" => (~gforceRabbit /\ OnRabbitmq(gchanges))
    /\ (gplan.defined /\ ~gforceRabbit) => ~OnRabbitmq(gplan.changes)

\* the update of rabbitmq to a newer image was refused
C21_Witness ==
    /\ gpc = "returned" /\ greqs = <<RabbitmqReq>> /\ ~gforceRabbit
    /\ gcb = <<[err |-> "RabbitmqLocked", plan |-> NoPlan]>>

\* with forceRabbitmq the same request gives a plan that updates rabbitmq
C21_WitnessForced ==
    /\ gpc = "returned" /\ greqs = <<RabbitmqReq>> /\ gforceRabbit
    /\ gerr = "none" /\ gplan.defined /\ OnRabbitmq(gplan.changes)
    /\ gplan.procs # <<>>

\* the changes of the plan on the service of an instance
ChangesOn(inst) ==
    {i \in 1..Len(gplan.changes) : gplan.changes[i].service = inst.service}

\* C22: in every plan genUpdatePlan builds, curr is the inventory as
\* getInstances gave it and targ has the same instances in the same order;
\* an instance of a service a change is on has the image and the version of
\* that change, every other instance and every other field is as in curr.
C22_TargFromCurr ==
    gplan.defined =>
        /\ gplan.curr = ginsts
        /\ \E layout \in Layouts : gplan.curr = Inventory(layout)
        /\ Len(gplan.targ) = Len(gplan.curr)
        /\ \A j \in 1..Len(gplan.curr) :
              LET c == gplan.curr[j]
                  t == gplan.targ[j]
              IN /\ t.instance = c.instance
                 /\ t.service = c.service
                 /\ t.hostname = c.hostname
                 /\ IF ChangesOn(c) = {} THEN t = c
                    ELSE \A i \in ChangesOn(c) :
                            /\ gplan.changes[i].image # ""
                            /\ t.image = gplan.changes[i].image
                            /\ t.version =
                                  VersionOf(gplan.changes[i].image)

\* a plan that moves the instance of imgapi to the latest image and leaves
\* the instance of rabbitmq alone
C22_Witness ==
    /\ gpc = "returned" /\ gerr = "none" /\ gplan.defined
    /\ gplan.curr = Inventory(<<"IA">>)
    /\ Len(gplan.changes) = 1 /\ gplan.changes[1].service = "imgapi"
    /\ gplan.targ[1].image = "IB" /\ gplan.curr[1].image = "IA"
    /\ gplan.targ[1].version = "master-2"
    /\ gplan.targ[2] = gplan.curr[2]

\* the steps that follow resolveDeps
AfterResolveDeps ==
    {"disallowRabbitmqUpdates"} \cup AfterRabbitmqGuard

\* C23: resolveDeps gives every change that has candidates the candidate
\* with the greatest published_at and takes the candidate list away; from
\* then on every update change, and every change of a plan, has exactly one
\* image and no candidate list, and that image is the one the request
\* named when it named one.
C23_ResolveDeps ==
    /\ [][gpc = "resolveDeps" =>
            /\ Len(gchanges') = Len(gchanges)
            /\ \A i \in 1..Len(gchanges) :
                  /\ gchanges'[i].images = <<>>
                  /\ gchanges[i].images # <<>> =>
                        /\ \E k \in 1..Len(gchanges[i].images) :
                              gchanges'[i].image = gchanges[i].images[k]
                        /\ \A k \in 1..Len(gchanges[i].images) :
                              PublishedAt(gchanges[i].images[k])
                                 <= PublishedAt(gchanges'[i].image)]_vars
    /\ [](gpc \in AfterResolveDeps =>
            \A i \in 1..Len(gchanges) :
                /\ gchanges[i].images = <<>>
                /\ gchanges[i].type = "update-service" =>
                      gchanges[i].image \in GenImages)
    /\ [](gplan.defined =>
            \A i \in 1..Len(gplan.changes) :
                /\ gplan.changes[i].images = <<>>
                /\ gplan.changes[i].image \in GenImages
                /\ \A r \in 1..Len(greqs) :
                      (greqs[r].service = gplan.changes[i].service
                         /\ greqs[r].image # "") =>
                            gplan.changes[i].image = greqs[r].image)

\* the candidates came newest first and the plan has the newest
C23_Witness ==
    /\ gpc = "createPlan" /\ Len(gchanges) = 2
    /\ ginsts = <<>> /\ gforceRabbit
    /\ \A i \in 1..2 : gchanges[i].image = "IB" /\ gchanges[i].images = <<>>
    /\ greqs[1].image = "" /\ greqs[2].image = ""

\* the seven shapes of a change request: the keys each needs, the keys it
\* may have and the type it may name
Shape(name, type, required, allowed) ==
    [name |-> name, type |-> type, required |-> required,
     allowed |-> allowed]

ShapeOf(req) ==
    IF req.type = "create"
    THEN Shape("create-instance", "create", {"service", "server"},
               {"type", "service", "server", "image"})
    ELSE IF req.type = "delete" /\ req.service # "" /\ req.server # ""
    THEN Shape("agent delete-instance", "delete", {"service", "server"},
               {"type", "service", "server", "image"})
    ELSE IF req.type = "delete"
    THEN Shape("vm delete-instance", "delete", {"instance"},
               {"type", "instance", "image"})
    ELSE IF req.type = "delete-service"
    THEN Shape("delete-service", "delete-service", {"service"},
               {"type", "service"})
    ELSE IF req.service # "" /\ req.server # ""
    THEN Shape("agent update-instance", "update-instance",
               {"service", "server"},
               {"type", "service", "server", "image"})
    ELSE IF req.instance # ""
    THEN Shape("vm update-instance", "update-instance", {"instance"},
               {"type", "instance", "image"})
    ELSE IF req.service # ""
    THEN Shape("update-service", "update-service", {"service"},
               {"type", "service", "image"})
    ELSE Shape("none", "", {}, {})

\* what is wrong with a request: a key its shape needs and it has not, a
\* key it has and its shape does not allow, a type that is not the one of
\* its shape, or no shape at all
Problems(req) ==
    LET sh == ShapeOf(req) IN
    IF sh.name = "none" THEN {[kind |-> "invalid", field |-> ""]}
    ELSE {[kind |-> "required", field |-> k] :
             k \in {f \in sh.required : req[f] = ""}}
         \cup {[kind |-> "extra", field |-> k] :
             k \in {f \in ReqKeys : req[f] # "" /\ f \notin sh.allowed}}
         \cup (IF req.type \notin {"", sh.type}
               THEN {[kind |-> "type", field |-> "type"]} ELSE {})

Malformed == \E i \in 1..Len(greqs) : Problems(greqs[i]) # {}

Reports(e, i, p) ==
    /\ e.change = i /\ e.kind = p.kind
    /\ p.field # "" => p.field \in e.fields

\* C24: a list with a malformed change request ends genUpdatePlan at
\* validateChanges: the error is a ValidationError when one error was found
\* and a MultiError otherwise, it carries an error for everything that is
\* wrong with every change, no plan is built and no upstream source has
\* been queried; a list without one passes validateChanges.
C24_ValidationErrors ==
    /\ (Malformed /\ gpc # "validateChanges") =>
          /\ gpc \in {"finishUp", "returned"}
          /\ gerr = IF Len(gerrs) = 1 THEN "ValidationError"
                    ELSE "MultiError"
          /\ \A i \in 1..Len(greqs) : \A p \in Problems(greqs[i]) :
                \E k \in 1..Len(gerrs) : Reports(gerrs[k], i, p)
          /\ \A k \in 1..Len(gerrs) :
                \E p \in Problems(greqs[gerrs[k].change]) :
                    Reports(gerrs[k], gerrs[k].change, p)
          /\ gcalls = {} /\ ginsts = <<>> /\ ~gplan.defined
          /\ \A k \in 1..Len(gcb) : gcb[k].err = gerr
    /\ ~Malformed => (gerrs = <<>> /\ gerr # "ValidationError")

\* two changes are malformed, one of them twice over, and cb got one
\* MultiError with the three errors
C24_Witness ==
    /\ gpc = "returned" /\ Len(gcb) = 1 /\ gcb[1].err = "MultiError"
    /\ Len(gerrs) = 3 /\ gerrs[1].change # gerrs[3].change
    /\ gcalls = {}
    \* getInstances is not running
    /\ ipc = "idle"
    /\ iagents = <<>>
    /\ ivms = <<>>
    /\ ipending = {}
    /\ iinsts = <<>>
    /\ ierrs = {}
    /\ ierr = "none"
    /\ icb = <<>>
    \* getCandidateImages is not running
    /\ kpc = "idle"
    /\ kinuse = <<>>
    /\ klocal = {}
    /\ kupstream = {}
    /\ klook = <<>>
    /\ kcurr = <<>>
    /\ kerrs = {}
    /\ kimgs = <<>>
    /\ kerr = "none"
    /\ kcb = <<>>
    /\ klog = <<>>

\* C25 as stated: when a call of getInstances to sapi, cnapi, vmapi or
\* imgapi has failed, cb gets the error and no instance.
C25_NoPartialInventory ==
    \A k \in 1..Len(icb) : icb[k].err # "none" => icb[k].insts = <<>>

\* both runs ended without a failure of the imgapi client
BothAnswered ==
    /\ cpc = "returned" /\ cfirst.defined
    /\ cerr # "SDCClientError" /\ cfirst.err # "SDCClientError"

CallAt(store, uuid) ==
    IF \E n \in 1..Len(klog) : klog[n] = Call(store, uuid)
    THEN CHOOSE n \in 1..Len(klog) : klog[n] = Call(store, uuid)
    ELSE 0

\* C27: getImage asks the local imgapi first and the updates server only
\* after the local imgapi has answered ResourceNotFound; a local hit and
\* any other local error go to cb as they are, without a call to the
\* updates server, and each store is asked at most once.
C27_LocalFirst ==
    /\ \A i \in 1..Len(klook) :
          LET l == klook[i] IN
          /\ CallAt("imgapi", l.uuid) > 0
          /\ CallAt("updates", l.uuid) > 0 <=> l.local = "ResourceNotFound"
          /\ CallAt("updates", l.uuid) > 0 =>
                CallAt("updates", l.uuid) > CallAt("imgapi", l.uuid)
          /\ l.local \in {"hit", "InternalError", "ConnectError"} =>
                (l.at = "done" /\ l.res = l.local)
          /\ l.at = "imgapi" <=> l.local = "pending"
          /\ l.at = "done" <=> l.res # "pending"
    /\ \A m, n \in 1..Len(klog) : klog[m] = klog[n] => m = n

\* one image came from the local imgapi, one from the updates server after
\* ResourceNotFound, and one lookup ended with the error of the local
\* imgapi
C27_Witness ==
    /\ Len(klook) = 2
    /\ klook[1].local = "hit" /\ klook[1].at = "done"
    /\ klook[2].local = "ResourceNotFound" /\ klook[2].res = "hit"
    /\ Len(klog) = 3

\* the images the instances of the service run, and those of them a store
\* holds
InUse == {kinuse[i] : i \in 1..Len(kinuse)}
Resolving == InUse \cap (klocal \cup kupstream)

\* C28 as stated: for a service whose instances run several images, the
\* candidates getCandidateImages hands to cb hold every image in use that
\* a store still has and every image of the updates server published after
\* the oldest of them.
C28_CandidateSet ==
    \A k \in 1..Len(kcb) :
        (kcb[k].err = "none" /\ Cardinality(InUse) > 1) =>
            LET cands == {kcb[k].imgs[n] : n \in 1..Len(kcb[k].imgs)} IN
            /\ Resolving \subseteq cands
            /\ \A img \in kupstream :
                  (\E cur \in Resolving :
                      /\ \A other \in Resolving :
                            PublishedAt(cur) <= PublishedAt(other)
                      /\ PublishedAt(img) > PublishedAt(cur)) =>
                        img \in cands

\* the places of the log where an image install on a server was invoked
InstallIdx == {i \in 1..Len(log) : log[i].op = "install"}

\* the servers of the peers of the shard
PeerServers ==
    {shard[r].server_uuid : r \in {q \in RoleSet : shard[q] # NoPeer}}

\* C29: in an HA run a peer is reprovisioned only after an install of the
\* target image on its server has succeeded, no server has the install
\* invoked twice, and a complete run has invoked it once on every server
\* of a peer: the async install is skipped on the primary's server, the
\* sync install on the primary's and on the async's.
C29_InstallBeforeReprovision ==
    HA =>
      /\ \A i \in 1..Len(log) :
            log[i].op = "reprovision" =>
              \E j \in 1..(i - 1) :
                /\ log[j].op = "install" /\ log[j].res = "ok"
                /\ log[j].server = log[i].server
                /\ log[j].img = TargetImage
      /\ \A i, j \in InstallIdx : i # j => log[i].server # log[j].server
      /\ pc = "done" =>
            {log[i].server : i \in InstallIdx} = PeerServers

\* a complete HA run of three peers on two servers: two installs, three
\* reprovisions
C29_Witness ==
    /\ HA /\ pc = "done"
    /\ Cardinality(InstallIdx) = 2
    /\ Cardinality(PeerServers) = 2
    /\ Cardinality({i \in 1..Len(log) : log[i].op = "reprovision"}) = 3

\* verifyFullHA has not called next() so far
NotVerified ==
    pc \in {Steps[i] : i \in 1..StepIndex("verifyFullHA")}

\* C30 as stated: in HA no image install, no disable and no reprovision is
\* invoked before verifyFullHA has succeeded.
C30_VerifyFirst ==
    (HA /\ NotVerified) =>
        \A i \in 1..Len(log) :
            log[i].op \notin {"install", "disable", "reprovision"}

(***************************************************************************)
(* C31: the steps common to both topologies come first.                    *)
(***************************************************************************)
\* lines 394-396, 418: the functions of shared.js both topologies run
CrossSteps ==
    {"getUserScript", "writeOldUserScriptForRollback", "updateSvcUserScript",
     "updateSapiSvc"}

\* lines 476-785: what the functions after getShardServers do
BranchOps ==
    {"install", "installLocal", "disable", "reprovision", "wait", "sleep",
     "promotion", "getLocalSapi", "setSapiProtoMode", "restartSapi",
     "postgresUp", "setMode"}

\* the entries of l for the action op
Entries(l, op) == {i \in 1..Len(l) : l[i].op = op}

\* every common step has called back without error in l: the user-script is
\* fetched, saved and put on the service and on every manatee zone, the
\* service has the new image and the local peer has given the shard status
CrossDone(l) ==
    /\ \A op \in CrossSteps \cup {"getShard"} :
        /\ \E i \in Entries(l, op) : l[i].res = "ok"
        /\ \A i \in Entries(l, op) : l[i].res = "ok"
    /\ IF HA
       THEN \A z \in Zones :
              \E i \in Entries(l, "updateInstUserScript") :
                  l[i].zone = z /\ l[i].res = "ok"
       ELSE \E i \in Entries(l, "updateVmUserScript") : l[i].res = "ok"
    /\ \A i \in Entries(l, "updateInstUserScript")
               \cup Entries(l, "updateVmUserScript") : l[i].res = "ok"

\* lines 447-474: every member the status listed has its server
ServersResolved ==
    /\ shard.primary # NoPeer
    /\ \A r \in RoleSet : shard[r] # NoPeer => shard[r].server_uuid \in Servers

\* C31: whenever an action of one of the two branches (image install, peer
\* disable, sapi proto mode, reprovision or any later one) is in the log,
\* every common step before it has succeeded and the servers of the shard
\* members are known; so after a common step has failed no such action is
\* ever performed.
C31_CrossCuttingFirst ==
    LET branch == {i \in 1..Len(log) : log[i].op \in BranchOps}
        first == CHOOSE i \in branch : \A j \in branch : i <= j
    IN branch # {} =>
        /\ CrossDone(SubSeq(log, 1, first - 1))
        /\ \A i \in first..Len(log) : log[i].op \in BranchOps
        /\ ServersResolved

\* an HA run that has disabled a peer, and a run of three instances
C31_Witness ==
    /\ HA
    /\ NumInsts = 3
    /\ \E i \in 1..Len(log) : log[i].op = "disable" /\ log[i].res = "ok"

(***************************************************************************)
(* C32: the mode waitForManatee derives from a status.                     *)
(***************************************************************************)
\* the peers a status lists
Listed(obj) == IF obj.sdc THEN {r \in RoleSet : obj[r] # "none"} ELSE {}

\* the mode the description gives for a status
DescribedMode(obj) ==
    IF ~obj.sdc THEN "transition"
    ELSE IF Listed(obj) = {} THEN "empty"
    ELSE IF Listed(obj) = {"primary"} /\ obj.primary = "empty"
        THEN "primary"
    ELSE IF /\ Listed(obj) = {"primary", "sync"}
            /\ obj.sync = "empty"
            /\ obj.primary = "sync"
        THEN "sync"
    ELSE IF /\ Listed(obj) = RoleSet
            /\ obj.async = "empty"
            /\ obj.sync = "async"
        THEN "async"
    ELSE "transition"

\* C32 as stated: the mode derived from the status that ended a wait is
\* 'empty' when no peer is listed, 'primary' when only a primary is listed
\* with an empty replication record, 'sync' and 'async' when the two or the
\* three peers are listed with the replication the mode stands for, and
\* 'transition' in every other case.
C32_ModeOfStatus ==
    wmode # "" => wmode = DescribedMode(wobj)

(***************************************************************************)
(* C33: the filters for one instance on the headnode.                      *)
(***************************************************************************)
\* lines 243, 284, 357, 446, 485: the procedure of each of the services
SingleClass ==
    [imgapi |-> "UpdateSingleHeadnodeImgapi", ufds |-> "UpdateUFDSServiceV1",
     sapi |-> "UpdateSingleHNSapiV1", binder |-> "UpdateBinderV1",
     mahi |-> "UpdateMahiV1"]

SingleServices == DOMAIN SingleClass

\* plan.curr holds one instance of the service, on this host
OneHere(svc) ==
    LET of(inst) == inst.service = svc
        svcInsts == SelectSeq(plan.curr, of)
    IN Len(svcInsts) = 1 /\ svcInsts[1].hostname = currHostname

\* the procedures that hold a change on the service
ProcsWith(svc) ==
    {i \in 1..Len(procs) :
        \E j \in 1..Len(procs[i].changes) :
            procs[i].changes[j].service = svc}

\* the error names the change on the service
Named(svc) ==
    \E i \in 1..Len(summary) :
        summary[i].type = "update-service" /\ summary[i].service = svc

\* C33: once coordinatePlan has called back, for a change on imgapi, ufds,
\* sapi, binder or mahi (one change per service): if plan.curr holds one
\* instance of the service and it is on this host, the change is in the
\* procedure of that service, bound to the instance, and no error names it;
\* otherwise no procedure holds it and coordinatePlan has failed, with the
\* 'do not support the following changes' error naming the change unless
\* the image lookup had failed before.
C33_SingleHeadnode ==
    cpc = "returned" =>
        \A c \in 1..Len(plan.changes) :
            LET svc == plan.changes[c].service IN
            svc \in SingleServices =>
                IF OneHere(svc)
                THEN /\ ~Named(svc)
                     /\ (cerr = "UpdateError" \/ (cerr = "none" /\ ~plan.justImages))
                            => \E i \in ProcsWith(svc) :
                                /\ procs[i].class = SingleClass[svc]
                                /\ Len(procs[i].changes) = 1
                                /\ procs[i].changes[1].inst = currHostname
                     /\ \A i \in ProcsWith(svc) :
                            procs[i].class = SingleClass[svc]
                ELSE /\ ProcsWith(svc) = {}
                     /\ cerr \in {"UpdateError", "SDCClientError"}
                     /\ cerr = "UpdateError" => Named(svc)
                     /\ returned = <<>>

\* a plan with a change on imgapi, which has its one instance here, and a
\* change on sapi, which has two instances
C33_Witness ==
    /\ cpc = "returned"
    /\ cerr = "UpdateError"
    /\ OneHere("imgapi")
    /\ ProcsWith("imgapi") # {}
    /\ Len(SelectSeq(plan.curr, LAMBDA inst : inst.service = "sapi")) = 2
    /\ Named("sapi")

(***************************************************************************)
(* C34: a simple service without instances.                                *)
(***************************************************************************)
\* plan.curr holds no instance of the service
NoInstance(svc) ==
    \A i \in 1..Len(plan.curr) : plan.curr[i].service # svc

\* C34: once coordinatePlan has called back, an update-service change on a
\* simple service that has no instance in plan.curr is in no error summary;
\* unless the image lookup failed, it is in the UpdateStatelessServicesV1
\* procedure that was built, with neither inst nor insts bound to it.
C34_NoInstanceUpdate ==
    cpc = "returned" =>
        \A c \in 1..Len(plan.changes) :
            LET svc == plan.changes[c].service IN
            (svc \in simpleServices /\ NoInstance(svc)) =>
                /\ ~Named(svc)
                /\ (cerr = "UpdateError" \/ (cerr = "none" /\ ~plan.justImages))
                    => \E i \in ProcsWith(svc) :
                        /\ procs[i].class = "UpdateStatelessServicesV1"
                        /\ \E j \in 1..Len(procs[i].changes) :
                            procs[i].changes[j] = plan.changes[c]
                /\ (cerr = "none" /\ ~plan.justImages)
                    => \E i \in 1..Len(returned) :
                        /\ returned[i].class = "UpdateStatelessServicesV1"
                        /\ \E j \in 1..Len(returned[i].changes) :
                            returned[i].changes[j] = plan.changes[c]

\* a plan whose only change is on a simple service without instances, which
\* coordinatePlan answers with one procedure
C34_Witness ==
    /\ cpc = "returned"
    /\ cerr = "none"
    /\ Len(plan.changes) = 1
    /\ plan.changes[1].service \in simpleServices
    /\ plan.curr = <<>>
    /\ Len(returned) = 1
    /\ returned[1].class = "UpdateStatelessServicesV1"

(***************************************************************************)
(* C35: the manatee change and the branch of the executor.                 *)
(***************************************************************************)
\* the hostnames of the instances of the service in plan.curr, in order
HostsOf(svc) ==
    LET of(inst) == inst.service = svc
        svcInsts == SelectSeq(plan.curr, of)
    IN [i \in 1..Len(svcInsts) |-> svcInsts[i].hostname]

\* the manatee change as the procedure holds it, if it holds one
ManateeChanges ==
    {procs[i].changes[j] :
        i \in {k \in 1..Len(procs) : procs[k].class = "UpdateManateeV2"},
        j \in {1}}

\* coordinatePlan has called back after its filters have run, and without
\* having dropped the procedures for justImages
Filtered ==
    /\ cpc = "returned"
    /\ cerr = "UpdateError" \/ (cerr = "none" /\ ~plan.justImages)

HasManatee ==
    \E c \in 1..Len(plan.changes) : plan.changes[c].service = "manatee"

C35_WitnessNone ==
    /\ Filtered
    /\ HostsOf("manatee") = <<>>
    /\ \E ch \in ManateeChanges : ch.inst = ""

(***************************************************************************)
(* C36: the DownloadImages procedure.                                      *)
(***************************************************************************)
\* the images of the plan's changes that imgapi answers ResourceNotFound for
Missing == ImagesOf(plan) \cap imgapiMissing

\* the DownloadImages procedures in procs
Downloads == {i \in 1..Len(procs) : procs[i].class = "DownloadImages"}

\* coordImages has called next without an error
Prefetched == cpc \notin {"idle", "coordImages"} /\ cerr # "SDCClientError"

\* C36: once coordImages has gone through, procs holds a DownloadImages
\* procedure if and only if imgapi answered ResourceNotFound for an image of
\* the changes; it is the first procedure and the only one of its class, it
\* lists those images and each of them once; and coordImages leaves
\* `changes` as it was, so the first filter starts with all changes of the
\* plan. A plan returned without error still has the procedure.
C36_DownloadImages ==
    /\ Prefetched =>
        /\ (Downloads # {}) <=> (Missing # {})
        /\ Downloads \subseteq {1}
        /\ \A i \in Downloads :
            /\ {procs[i].images[j] : j \in 1..Len(procs[i].images)} = Missing
            /\ Len(procs[i].images) = Cardinality(Missing)
            /\ procs[i].changes = <<>>
    /\ cpc = "updateSimpleServices" =>
        /\ Len(changes) = Len(plan.changes)
        /\ \A c \in 1..Len(changes) : changes[c] = plan.changes[c]
    /\ (cpc = "returned" /\ cerr = "none") =>
        ((\E i \in 1..Len(returned) : returned[i].class = "DownloadImages")
            <=> Missing # {})

\* two changes with the same image, which imgapi does not hold
C36_Witness ==
    /\ cpc = "returned"
    /\ cerr = "none"
    /\ Len(plan.changes) = 2
    /\ plan.changes[1].image = plan.changes[2].image
    /\ Missing # {}
    /\ Len(returned[1].images) = 1

(***************************************************************************)
(* C37: a failure while sapi is in proto mode.                             *)
(***************************************************************************)
\* the entry that tells that SAPI_PROTO_MODE was written, 0 if there is none
ProtoAt ==
    LET written == {i \in Entries(log, "setSapiProtoMode") : log[i].res = "ok"}
    IN IF written = {} THEN 0 ELSE CHOOSE i \in written : TRUE

\* lines 733-767: the sapi restart, the reprovision of the peer or the
\* wait for PostgreSQL has called back with an error
FailedInProtoMode ==
    {i \in 1..Len(log) :
        /\ ProtoAt > 0
        /\ i > ProtoAt
        /\ log[i].op \in {"restartSapi", "reprovision", "postgresUp"}
        /\ log[i].res \in {"err", "timeout"}}

SapiOps == {"getLocalSapi", "setSapiProtoMode", "restartSapi", "setMode"}

\* lines 508-674, 778-785: what only a run with HA does
PeerOps == {"disable", "wait", "promotion"}

Performed == {log[i].op : i \in 1..Len(log)}

\* C38: a run on a change with several instances (the HA branch) never
\* looks up the sapi zone, never writes its proto-mode metadata, never
\* restarts it and never calls setMode, so sapi is left as it was; a run on
\* a change with one instance (the no-HA branch) never disables a peer and
\* never waits for a shard mode or for the promotion.
C38_BranchesApart ==
    /\ pc # "updateManatee" => (HA <=> NumInsts > 1)
    /\ NumInsts > 1 =>
        /\ Performed \cap SapiOps = {}
        /\ sapiUUID = ""
        /\ ~sapiMeta
        /\ sapiMode = "full"
    /\ NumInsts = 1 => Performed \cap PeerOps = {}

\* an HA run that went through all its steps
C38_Witness ==
    /\ HA
    /\ pc = "done"
    /\ err = "none"
    /\ "promotion" \in Performed

\* a run without HA that went through all its steps
C38_WitnessNoHA ==
    /\ ~HA
    /\ pc = "done"
    /\ err = "none"
    /\ "setMode" \in Performed

(***************************************************************************)
(* C39: the change types of a plan.                                        *)
(***************************************************************************)
\* the changes are all of type update-service
OnlyUpdateService(chs) ==
    \A i \in 1..Len(chs) : chs[i].type = "update-service"

\* C39: the `plan` variable, once set, holds changes of type update-service
\* only, and so does every plan that genUpdatePlan hands to its callback,
\* with or without an error; when createPlan meets a change of another type
\* genUpdatePlan calls back with the 'unknown ch.type' error and no plan.
C39_OnlyUpdateService ==
    /\ gplan.defined => OnlyUpdateService(gplan.changes)
    /\ \A k \in 1..Len(gcb) :
        /\ gcb[k].plan.defined => OnlyUpdateService(gcb[k].plan.changes)
        /\ gcb[k].err = "none" => gcb[k].plan.defined
        /\ gcb[k].err = "UnknownChangeType" => gcb[k].plan = NoPlan
    /\ (gpc \in {"determineProcedures", "coordinatePlan"} \/ gerr = "none")
            => OnlyUpdateService(gchanges) \/ ~gplan.defined
    /\ gerr = "UnknownChangeType" =>
        /\ ~gplan.defined
        /\ ~OnlyUpdateService(gchanges)

\* a delete-service change has reached createPlan and genUpdatePlan has
\* called back with the error and without a plan
C39_Witness ==
    /\ gpc = "returned"
    /\ gerr = "UnknownChangeType"
    /\ \E i \in 1..Len(gchanges) : gchanges[i].type = "delete-service"
    /\ Len(gcb) = 1
    /\ gcb[1].plan = NoPlan

\* a plan handed over without an error
C39_WitnessPlan ==
    /\ gpc = "returned"
    /\ gerr = "none"
    /\ gcb[1].plan.defined
    /\ Len(gcb[1].plan.changes) > 0

(***************************************************************************)
(* C40: the instance ids of the inventory.                                 *)
(***************************************************************************)
\* the records of the list have different instance ids
DistinctIds(list) ==
    \A a, b \in 1..Len(list) : a # b => list[a].instance # list[b].instance

\* C40 as stated: in the list getInstances hands to cb any two records have
\* different instance ids, also two agent instances of one agent service on
\* two servers when sapi has an instance of that service.
C40_DistinctInstanceIds ==
    \A k \in 1..Len(icb) : DistinctIds(icb[k].insts)

====
